---- MODULE Spec2Model ----
(***************************************************************************)
(* Model of subnet-rayai-node: the role reconciler and the process         *)
(* controller of src/ray/service.go, the HTTP handlers of                  *)
(* src/api/handlers.go that call the controller, the geo / bandwidth       *)
(* caches of src/resource/manager.go with their background refreshers, the *)
(* registration and heartbeat of the Manager, and the API server's         *)
(* bandwidth cache with its updater (src/api/server.go).                   *)
(***************************************************************************)
EXTENDS Integers, Sequences, FiniteSets, TLC

\* ------------------------------------------------------------------ bounds
MaxTicks == 2
MaxApiCalls == 2
MaxCalls == 3
MaxAdvances == 1
MaxBeats == 3
MaxRegCalls == 2
MaxRounds == 2
MaxReads == 2

\* --------------------------------------------------------------- constants
\* ray/service.go:213,225,240: the fixed coordination port
RayPort == "6379"

\* resource/manager.go:191,242: the time a fetched value stays fresh (minutes)
GeoTTL == 240
BwTTL == 1440
\* resource/manager.go:257,269: the retry delay of the refreshers (minutes)
RetryDelay == 1

\* goroutines that call the caches: heartbeats, handlers, refreshers
Callers == {"c1", "c2"}
Caches == {"geo", "bw"}
\* resource/manager.go:251-275: the two goroutines of StartBackgroundUpdater
Refreshers == {"rgeo", "rbw"}
AllCallers == Callers \cup Refreshers

\* the reconciler goroutine and a goroutine gin runs a handler on
Rec == "rec"
ApiProcs == {"api1"}
Threads == {Rec} \cup ApiProcs

\* the heartbeat goroutine (part_000:96-108) and a goroutine that calls the
\* exported RegisterNode itself
Hb == "hb"
Reg == "reg"
HbThreads == {Hb, Reg}

\* config.ManagerIP: not configured, a string that is no host, a host
ManagerIPs == {"", "bad host", "mgr:8080"}

\* strings are sequences of characters; the head addresses the control plane
\* or an API request can carry
HeadIPs == {<<>>, <<"a", ".", "b">>}

\* ray/service.go:23-27 plus what a decoded body can hold besides them
RoleHead == "head"
RoleWorker == "worker"
RoleNone == "none"
RoleStrings == {RoleHead, RoleWorker, RoleNone, "bogus"}

\* ray/service.go:30-33
RoleInfo == [Role : RoleStrings, HeadIP : HeadIPs]

\* what the manager's /api/node/role can answer to one request
Responses ==
    {[kind |-> k, Role |-> RoleHead, HeadIP |-> <<>>] :
        k \in {"unreachable", "bad_status", "malformed"}}
    \cup [kind : {"ok"}, Role : RoleStrings, HeadIP : HeadIPs]

VARIABLES
    \* the external compute-cluster process
    running,        \* a ray runtime is up on this host
    runRole,        \* "head" / "worker" / "none": what it was started as
    runAddr,        \* the head address a worker was pointed at
    \* every thread's position and the locals of the call it is in
    pc,
    roleInfo,       \* SetupNodeByRole's roleInfo / the API request's target
    currentRole,    \* the loop's currentRole (service.go:427), Rec only
    obs,            \* results of the IsRunning() calls of this call, in order
    cmds,           \* commands this call issued, in order
    result,         \* the string the call returned
    err,            \* the error the call returned ("none" for nil)
    resp,           \* the manager's answer SetupNodeByRole's GetRole consumed
    httpStatus,     \* status code the handler answered with (0: none yet)
    ticks,          \* reconciliation ticks started so far
    apiCalls,       \* API requests accepted so far
    \* history of commands issued to the binary
    startWhileRunning,  \* some start command was issued while running
    startsSinceStop,    \* start commands issued since the last stop command
    roleQueries,        \* role queries sent to the manager in this tick
    args,           \* argument list of the last command this call ran
    outText         \* what the output of the call's failed command says

VARIABLES
    \* resource/manager.go:25-33: the geo and bandwidth caches, by cache name
    now,            \* time.Now(), in minutes
    cacheVal,       \* geoCache / bwCache: 0 is nil, n is the n-th fetch's value
    expiry,         \* geoExpiry / bwExpiry: 0 is the zero time
    writer,         \* holder of the write lock of geoMutex / bwMutex, or "none"
    readers,        \* holders of the read lock
    \* the goroutines calling GetGeoLocation / GetBandwidth and their locals
    cpc,
    ckind,          \* the cache the call is on
    cforce,         \* forceUpdate
    ret,            \* value returned (0: nil)
    cerr,           \* error returned ("none" for nil)
    seen,           \* the stored value the call found at its first check
    path,           \* how the call ended: "fast", "recheck" or "fetch"
    \* history
    fetchCount,     \* fetch invocations per cache
    okCount,        \* successful fetches per cache
    forcedEver,     \* a forced call was made on the cache
    staleVals,      \* stored values some check found expired
    staleFail,      \* a fetch failed while the cache held a value
    sawFail,        \* staleFail of its cache when the call began
    calls,          \* calls started so far
    advances,       \* clock advances so far
    expOf,          \* the fetch whose expiry the cache holds (0: none)
    seenExp         \* expOf of its cache at the call's last check

VARIABLES
    \* unnamed/part_000:38-57: the Manager's registration state
    registered,     \* m.registered
    managerIP,      \* m.config.ManagerIP
    \* the goroutines in SendHeartbeat / RegisterNode and their locals
    hpc,
    regReqs,        \* registration requests this call sent
    hbReqs,         \* heartbeat requests this SendHeartbeat call sent
    regCallsIn,     \* RegisterNode calls this SendHeartbeat call made
    herr,           \* the error the call returned, outermost message first
    regOutcome,     \* how the call's registration request ended
    hbOutcome,      \* how the call's heartbeat request ended
    \* RegisterNode's locals (part_000:376-402), gone when the call returns
    geo,            \* the geo value the lookup returned (0 for nil)
    bw,             \* the bandwidth value the lookup returned (0 for nil)
    warned,         \* the lookups that returned an error (378, 385)
    regData,        \* the keys of the registration payload
    \* history
    everReg,        \* registered has been true
    regAtStart,     \* everReg when the goroutine's call began
    beats,          \* heartbeat ticks so far
    regCalls        \* explicit RegisterNode calls so far

VARIABLES
    \* resource/manager.go:251-275: the refresher goroutines
    rpc,            \* "loop" (top of the loop), "call", "sleep"
    wake,           \* the time the refresher's time.Sleep ends
    sleptAt,        \* the time it began
    rounds          \* cache calls the loops (refreshers, heartbeat) began

VARIABLES
    \* api/server.go:14-21, api/handlers.go:46-50: the API server's bandwidth
    \* cache, its updater goroutine and a goroutine in getResources
    srvAlloc,       \* s.bandwidth != nil
    srvData,        \* s.bandwidth.data, by field: the measurement it is from
    srvTs,          \* s.bandwidth.timestamp: measurement and time (0: zero time)
    srvMu,          \* holder of s.bandwidth.mu, or "none"
    srvPending,     \* stores of the updater not yet visible to other goroutines
    srvMeasures,    \* speed tests completed so far
    upc,            \* the updater's position
    uerr,           \* the error its getBandwidth call returned
    uwake,          \* the time its time.Sleep ends
    urounds,        \* its loop iterations so far
    spc,            \* getResources' position
    got,            \* what getResources read: timestamp and figures
    reads           \* GET /resources requests so far

refVars == <<rpc, wake, sleptAt, rounds>>

srvVars == <<srvAlloc, srvData, srvTs, srvMu, srvPending, srvMeasures, upc,
             uerr, uwake, urounds, spc, got, reads>>

regLocals == <<geo, bw, warned, regData>>

hbVars == <<registered, managerIP, hpc, regReqs, hbReqs, regCallsIn, herr,
            regOutcome, hbOutcome, everReg, regAtStart, beats, regCalls,
            regLocals>>

cacheVars == <<now, cacheVal, expiry, writer, readers, cpc, ckind, cforce, ret,
               cerr, seen, path, fetchCount, okCount, forcedEver, staleVals,
               staleFail, sawFail, calls, advances, expOf, seenExp>>

rayVars == <<running, runRole, runAddr, pc, roleInfo, currentRole, obs, cmds,
             result, err, resp, httpStatus, ticks, apiCalls,
             startWhileRunning, startsSinceStop, roleQueries, args, outText>>

\* ------------------------------------------------------------ pure helpers

\* what `ray status` can print / return in a given state of the runtime
StatusOutputs(isUp) ==
    IF isUp
    THEN [err : {FALSE}, started : BOOLEAN, csid : BOOLEAN, notRunning : {FALSE}]
    ELSE [err : {TRUE}, started : {FALSE}, csid : {FALSE}, notRunning : BOOLEAN]
         \cup [err : {FALSE}, started : {FALSE}, csid : {FALSE}, notRunning : {TRUE}]

\* ray/service.go:65-78
IsRunning(o) ==
    IF o.err
    THEN FALSE
    ELSE o.started \/ o.csid \/ ~o.notRunning

\* GetRole without the fallback: an unreachable manager is an error
GetRole_NoFallback(managerSet, r) ==
    IF ~managerSet
    THEN [err |-> "none", Role |-> RoleHead, HeadIP |-> <<>>]
    ELSE IF r.kind \in {"unreachable", "bad_status", "malformed"}
    THEN [err |-> "decode", Role |-> "", HeadIP |-> <<>>]
    ELSE IF r.Role \notin {RoleHead, RoleWorker, RoleNone}
    THEN [err |-> "invalid_role", Role |-> "", HeadIP |-> <<>>]
    ELSE IF r.Role = RoleWorker /\ r.HeadIP = <<>>
    THEN [err |-> "no_head_ip", Role |-> "", HeadIP |-> <<>>]
    ELSE [err |-> "none", Role |-> r.Role, HeadIP |-> r.HeadIP]

\* GetRole falling back to head on an undecodable body as well
GetRole_MalformedFallback(managerSet, r) ==
    IF ~managerSet
    THEN [err |-> "none", Role |-> RoleHead, HeadIP |-> <<>>]
    ELSE IF r.kind \in {"unreachable", "bad_status", "malformed"}
    THEN [err |-> "none", Role |-> RoleHead, HeadIP |-> <<>>]
    ELSE IF r.Role \notin {RoleHead, RoleWorker, RoleNone}
    THEN [err |-> "invalid_role", Role |-> "", HeadIP |-> <<>>]
    ELSE IF r.Role = RoleWorker /\ r.HeadIP = <<>>
    THEN [err |-> "no_head_ip", Role |-> "", HeadIP |-> <<>>]
    ELSE [err |-> "none", Role |-> r.Role, HeadIP |-> r.HeadIP]

\* GetRole without the head-address validation of a worker assignment
GetRole_NoHeadIPCheck(managerSet, r) ==
    IF ~managerSet
    THEN [err |-> "none", Role |-> RoleHead, HeadIP |-> <<>>]
    ELSE IF r.kind \in {"unreachable", "bad_status"}
    THEN [err |-> "none", Role |-> RoleHead, HeadIP |-> <<>>]
    ELSE IF r.kind = "malformed"
    THEN [err |-> "decode", Role |-> "", HeadIP |-> <<>>]
    ELSE IF r.Role \notin {RoleHead, RoleWorker, RoleNone}
    THEN [err |-> "invalid_role", Role |-> "", HeadIP |-> <<>>]
    ELSE [err |-> "none", Role |-> r.Role, HeadIP |-> r.HeadIP]

\* ray/service.go:81-154.  GetResources (service.go:94) never returns an
\* error (service.go:365-376), so that exit is not reachable.
GetRole(managerSet, r) ==
    IF ~managerSet
    THEN [err |-> "none", Role |-> RoleHead, HeadIP |-> <<>>]
    ELSE IF r.kind = "unreachable"
    THEN [err |-> "none", Role |-> RoleHead, HeadIP |-> <<>>]
    ELSE IF r.kind = "bad_status"
    THEN [err |-> "none", Role |-> RoleHead, HeadIP |-> <<>>]
    ELSE IF r.kind = "malformed"
    THEN [err |-> "decode", Role |-> "", HeadIP |-> <<>>]
    ELSE IF r.Role \notin {RoleHead, RoleWorker, RoleNone}
    THEN [err |-> "invalid_role", Role |-> "", HeadIP |-> <<>>]
    ELSE IF r.Role = RoleWorker /\ r.HeadIP = <<>>
    THEN [err |-> "no_head_ip", Role |-> "", HeadIP |-> <<>>]
    ELSE [err |-> "none", Role |-> r.Role, HeadIP |-> r.HeadIP]

\* strings.Replace(headIP, ".", "-", -1), ray/service.go:251
ReplaceDots(s) == [i \in 1..Len(s) |-> IF s[i] = "." THEN "-" ELSE s[i]]

\* ray/service.go:225
HeadId == <<"head-", RayPort>>

\* ray/service.go:251
WorkerId(headIP) == <<"worker-">> \o ReplaceDots(headIP)

\* ray/service.go:210-215: the argument list of StartHead's command
StartHeadArgs ==
    <<"start", "--head", <<"--port=", RayPort>>, "--dashboard-host=0.0.0.0">>

\* the worker's argument list with the bare head address
StartWorkerArgs_NoPort(headIP) == <<"start", "--address", headIP>>

\* ray/service.go:238-241: fmt.Sprintf("%s:6379", headIP)
StartWorkerArgs(headIP) == <<"start", "--address", headIP \o <<":", RayPort>>>>

\* ray/service.go:264
StopArgs == <<"stop">>

\* what the combined output of a failed command can say: nothing the
\* handlers look for, or one of the phrases they look for.  The reconciler
\* only logs the text.
OutTexts(t) ==
    IF t = Rec THEN {""} ELSE {"", "already running", "not running"}

NoRole == [Role |-> "", HeadIP |-> <<>>]
NoResp == [kind |-> "none", Role |-> "", HeadIP |-> <<>>]

\* --------------------------------------------------------------------- Init
RayInit ==
    /\ running \in BOOLEAN
    /\ runRole = (IF running THEN RoleHead ELSE RoleNone)
    /\ runAddr = <<>>
    /\ pc = [t \in Threads |-> IF t = Rec THEN "go" ELSE "idle"]
    /\ roleInfo = [t \in Threads |-> NoRole]
    /\ currentRole = NoRole
    /\ obs = [t \in Threads |-> <<>>]
    /\ cmds = [t \in Threads |-> <<>>]
    /\ result = [t \in Threads |-> <<>>]
    /\ err = [t \in Threads |-> "none"]
    /\ resp = NoResp
    /\ httpStatus = [t \in ApiProcs |-> 0]
    /\ ticks = 0
    /\ apiCalls = 0
    /\ startWhileRunning = FALSE
    /\ startsSinceStop = 0
    /\ roleQueries = 0
    /\ args = [t \in Threads |-> <<>>]
    /\ outText = [t \in Threads |-> ""]


\* ------------------------------------------------------------------ actions
\* where a controller call returns to: SetupNodeByRole or the HTTP handler
Ret(t) == IF t = Rec THEN "ret" ELSE "respond"

Cap2(n) == IF n >= 2 THEN 2 ELSE n + 1

\* the goroutine waiting for the first ticker period before any setup
RecGo_WaitFirst ==
    /\ pc[Rec] = "go"
    /\ pc' = [pc EXCEPT ![Rec] = "wait"]
    /\ UNCHANGED <<running, runRole, runAddr, roleInfo, currentRole, obs, cmds,
                   result, err, resp, httpStatus, ticks, apiCalls,
                   startWhileRunning, startsSinceStop>>
    /\ UNCHANGED <<roleQueries, args, outText>>
    /\ UNCHANGED <<cacheVars, hbVars, refVars, srvVars>>

\* ray/service.go:412-417: the goroutine starts and makes the initial
\* SetupNodeByRole call without delay
RecGo ==
    /\ pc[Rec] = "go"
    /\ pc' = [pc EXCEPT ![Rec] = "getrole"]
    /\ ticks' = ticks + 1
    /\ UNCHANGED <<running, runRole, runAddr, roleInfo, currentRole, obs, cmds,
                   result, err, resp, httpStatus, apiCalls,
                   startWhileRunning, startsSinceStop>>
    /\ roleQueries' = 0
    /\ UNCHANGED <<args, outText>>
    /\ UNCHANGED <<cacheVars, hbVars, refVars, srvVars>>

\* ray/service.go:420-424: the ticker fires and the loop body starts
TickerFire ==
    /\ pc[Rec] = "wait"
    /\ ticks < MaxTicks
    /\ pc' = [pc EXCEPT ![Rec] = "loop_getrole"]
    /\ ticks' = ticks + 1
    /\ UNCHANGED <<running, runRole, runAddr, roleInfo, currentRole, obs, cmds,
                   result, err, resp, httpStatus, apiCalls,
                   startWhileRunning, startsSinceStop>>
    /\ roleQueries' = 0
    /\ UNCHANGED <<args, outText>>
    /\ UNCHANGED <<cacheVars, hbVars, refVars, srvVars>>

\* the same step once the model's tick count is used up
TickerFireMore ==
    /\ pc[Rec] = "wait"
    /\ ticks = MaxTicks
    /\ pc' = [pc EXCEPT ![Rec] = "loop_getrole"]
    /\ UNCHANGED <<running, runRole, runAddr, roleInfo, currentRole, obs, cmds,
                   result, err, resp, httpStatus, ticks, apiCalls,
                   startWhileRunning, startsSinceStop>>
    /\ roleQueries' = 0
    /\ UNCHANGED <<args, outText>>
    /\ UNCHANGED <<cacheVars, hbVars, refVars, srvVars>>

\* ray/service.go:426-431: the loop's own GetRole call
LoopGetRole ==
    /\ pc[Rec] = "loop_getrole"
    /\ \E r \in Responses :
         LET g == GetRole(TRUE, r) IN
         IF g.err # "none"
         THEN /\ pc' = [pc EXCEPT ![Rec] = "wait"]
              /\ UNCHANGED currentRole
         ELSE /\ pc' = [pc EXCEPT ![Rec] = "getrole"]
              /\ currentRole' = [Role |-> g.Role, HeadIP |-> g.HeadIP]
    /\ UNCHANGED <<running, runRole, runAddr, roleInfo, obs, cmds,
                   result, err, resp, httpStatus, ticks, apiCalls,
                   startWhileRunning, startsSinceStop>>
    /\ roleQueries' = roleQueries + 1
    /\ UNCHANGED <<args, outText>>
    /\ UNCHANGED <<cacheVars, hbVars, refVars, srvVars>>

\* ray/service.go:157-165,184: SetupNodeByRole queries the role and branches
SetupGetRole ==
    /\ pc[Rec] = "getrole"
    /\ \E r \in Responses :
         LET g == GetRole(TRUE, r) IN
         /\ resp' = r
         /\ obs' = [obs EXCEPT ![Rec] = <<>>]
         /\ cmds' = [cmds EXCEPT ![Rec] = <<>>]
         /\ result' = [result EXCEPT ![Rec] = <<>>]
         /\ IF g.err # "none"
            THEN /\ err' = [err EXCEPT ![Rec] = g.err]
                 /\ roleInfo' = [roleInfo EXCEPT ![Rec] = NoRole]
                 /\ pc' = [pc EXCEPT ![Rec] = "ret"]
            ELSE /\ err' = [err EXCEPT ![Rec] = "none"]
                 /\ roleInfo' = [roleInfo EXCEPT
                        ![Rec] = [Role |-> g.Role, HeadIP |-> g.HeadIP]]
                 /\ pc' = [pc EXCEPT ![Rec] =
                        IF g.Role = RoleNone THEN "none_isrunning" ELSE "isrunning"]
    /\ UNCHANGED <<running, runRole, runAddr, currentRole, httpStatus, ticks,
                   apiCalls, startWhileRunning, startsSinceStop>>
    /\ roleQueries' = roleQueries + 1
    /\ args' = [args EXCEPT ![Rec] = <<>>]
    /\ UNCHANGED outText
    /\ UNCHANGED <<cacheVars, hbVars, refVars, srvVars>>

\* the None branch calling StopNode whatever IsRunning() returned
NoneIsRunning_AlwaysStop ==
    /\ pc[Rec] = "none_isrunning"
    /\ \E o \in StatusOutputs(running) :
         obs' = [obs EXCEPT ![Rec] = Append(@, IsRunning(o))]
    /\ pc' = [pc EXCEPT ![Rec] = "stop_isrunning"]
    /\ UNCHANGED <<running, runRole, runAddr, roleInfo, currentRole, cmds,
                   result, err, resp, httpStatus, ticks, apiCalls,
                   startWhileRunning, startsSinceStop>>
    /\ UNCHANGED <<roleQueries, args, outText>>
    /\ UNCHANGED <<cacheVars, hbVars, refVars, srvVars>>

\* ray/service.go:166-168,181: the None branch asks whether ray is running
NoneIsRunning ==
    /\ pc[Rec] = "none_isrunning"
    /\ \E o \in StatusOutputs(running) :
         /\ obs' = [obs EXCEPT ![Rec] = Append(@, IsRunning(o))]
         /\ IF IsRunning(o)
            THEN /\ pc' = [pc EXCEPT ![Rec] = "stop_isrunning"]
                 /\ UNCHANGED result
            ELSE /\ pc' = [pc EXCEPT ![Rec] = "ret"]
                 /\ result' = [result EXCEPT ![Rec] = <<"idle">>]
    /\ UNCHANGED <<running, runRole, runAddr, roleInfo, currentRole, cmds,
                   err, resp, httpStatus, ticks, apiCalls,
                   startWhileRunning, startsSinceStop>>
    /\ UNCHANGED <<roleQueries, args, outText>>
    /\ UNCHANGED <<cacheVars, hbVars, refVars, srvVars>>

\* ray/service.go:258-262: StopNode's own check
StopNodeCheck(t) ==
    /\ pc[t] = "stop_isrunning"
    /\ \E o \in StatusOutputs(running) :
         /\ obs' = [obs EXCEPT ![t] = Append(@, IsRunning(o))]
         /\ IF ~IsRunning(o)
            THEN /\ err' = [err EXCEPT ![t] = "not_running"]
                 /\ pc' = [pc EXCEPT ![t] = Ret(t)]
            ELSE /\ pc' = [pc EXCEPT ![t] = "stop_exec"]
                 /\ UNCHANGED err
    /\ UNCHANGED <<running, runRole, runAddr, roleInfo, currentRole, cmds,
                   result, resp, httpStatus, ticks, apiCalls,
                   startWhileRunning, startsSinceStop>>
    /\ UNCHANGED <<roleQueries, args, outText>>
    /\ UNCHANGED <<cacheVars, hbVars, refVars, srvVars>>

\* the stop command with the reconciler returning right after it, no cleanup
StopNodeExec_SkipClear(t) ==
    /\ pc[t] = "stop_exec"
    /\ cmds' = [cmds EXCEPT ![t] = Append(@, "stop")]
    /\ startsSinceStop' = 0
    /\ args' = [args EXCEPT ![t] = StopArgs]
    /\ \E ok \in BOOLEAN, out \in OutTexts(t) :
         IF ok
         THEN /\ running' = FALSE
              /\ runRole' = RoleNone
              /\ runAddr' = <<>>
              /\ pc' = [pc EXCEPT ![t] = Ret(t)]
              /\ UNCHANGED <<err, outText>>
         ELSE /\ err' = [err EXCEPT ![t] = "stop_failed"]
              /\ outText' = [outText EXCEPT ![t] = out]
              /\ pc' = [pc EXCEPT ![t] = Ret(t)]
              /\ UNCHANGED <<running, runRole, runAddr>>
    /\ UNCHANGED <<roleInfo, currentRole, obs, result, resp, httpStatus, ticks,
                   apiCalls, startWhileRunning>>
    /\ UNCHANGED roleQueries
    /\ UNCHANGED <<cacheVars, hbVars, refVars, srvVars>>

\* StopNode running the stop command a second time
StopNodeExec_StopTwice(t) ==
    /\ pc[t] = "stop_exec"
    /\ cmds' = [cmds EXCEPT ![t] = @ \o <<"stop", "stop">>]
    /\ startsSinceStop' = 0
    /\ args' = [args EXCEPT ![t] = StopArgs]
    /\ \E ok \in BOOLEAN, out \in OutTexts(t) :
         IF ok
         THEN /\ running' = FALSE
              /\ runRole' = RoleNone
              /\ runAddr' = <<>>
              /\ pc' = [pc EXCEPT ![t] = IF t = Rec THEN "clear" ELSE Ret(t)]
              /\ UNCHANGED <<err, outText>>
         ELSE /\ err' = [err EXCEPT ![t] = "stop_failed"]
              /\ outText' = [outText EXCEPT ![t] = out]
              /\ pc' = [pc EXCEPT ![t] = Ret(t)]
              /\ UNCHANGED <<running, runRole, runAddr>>
    /\ UNCHANGED <<roleInfo, currentRole, obs, result, resp, httpStatus, ticks,
                   apiCalls, startWhileRunning>>
    /\ UNCHANGED roleQueries
    /\ UNCHANGED <<cacheVars, hbVars, refVars, srvVars>>

\* ray/service.go:264-272 and, for the reconciler, 169-171: the stop command
StopNodeExec(t) ==
    /\ pc[t] = "stop_exec"
    /\ cmds' = [cmds EXCEPT ![t] = Append(@, "stop")]
    /\ startsSinceStop' = 0
    /\ args' = [args EXCEPT ![t] = StopArgs]
    /\ \E ok \in BOOLEAN, out \in OutTexts(t) :
         IF ok
         THEN /\ running' = FALSE
              /\ runRole' = RoleNone
              /\ runAddr' = <<>>
              /\ pc' = [pc EXCEPT ![t] = IF t = Rec THEN "clear" ELSE Ret(t)]
              /\ UNCHANGED <<err, outText>>
         ELSE /\ err' = [err EXCEPT ![t] = "stop_failed"]
              /\ outText' = [outText EXCEPT ![t] = out]
              /\ pc' = [pc EXCEPT ![t] = Ret(t)]
              /\ UNCHANGED <<running, runRole, runAddr>>
    /\ UNCHANGED <<roleInfo, currentRole, obs, result, resp, httpStatus, ticks,
                   apiCalls, startWhileRunning>>
    /\ UNCHANGED roleQueries
    /\ UNCHANGED <<cacheVars, hbVars, refVars, srvVars>>

\* ray/service.go:386-406
ClearRayData(dirExists, rmOk) ==
    IF ~dirExists THEN "none"
    ELSE IF ~rmOk THEN "clear_failed"
    ELSE "none"

\* the cleanup with its failure returned as the tick's error
ClearStep_FailOnError ==
    /\ pc[Rec] = "clear"
    /\ \E dirExists \in BOOLEAN, rmOk \in BOOLEAN :
         IF ClearRayData(dirExists, rmOk) = "none"
         THEN /\ cmds' = [cmds EXCEPT ![Rec] = Append(@, "clear")]
              /\ result' = [result EXCEPT ![Rec] = <<"stopped">>]
              /\ UNCHANGED err
         ELSE /\ cmds' = [cmds EXCEPT ![Rec] = Append(@, "clear_failed")]
              /\ err' = [err EXCEPT ![Rec] = "clear_failed"]
              /\ UNCHANGED result
    /\ pc' = [pc EXCEPT ![Rec] = "ret"]
    /\ UNCHANGED <<running, runRole, runAddr, roleInfo, currentRole, obs,
                   resp, httpStatus, ticks, apiCalls,
                   startWhileRunning, startsSinceStop>>
    /\ UNCHANGED <<roleQueries, args, outText>>
    /\ UNCHANGED <<cacheVars, hbVars, refVars, srvVars>>

\* ray/service.go:173-179: best-effort cleanup, then "stopped"
ClearStep ==
    /\ pc[Rec] = "clear"
    /\ \E dirExists \in BOOLEAN, rmOk \in BOOLEAN :
         cmds' = [cmds EXCEPT ![Rec] =
                    Append(@, IF ClearRayData(dirExists, rmOk) = "none"
                              THEN "clear" ELSE "clear_failed")]
    /\ result' = [result EXCEPT ![Rec] = <<"stopped">>]
    /\ pc' = [pc EXCEPT ![Rec] = "ret"]
    /\ UNCHANGED <<running, runRole, runAddr, roleInfo, currentRole, obs,
                   err, resp, httpStatus, ticks, apiCalls,
                   startWhileRunning, startsSinceStop>>
    /\ UNCHANGED <<roleQueries, args, outText>>
    /\ UNCHANGED <<cacheVars, hbVars, refVars, srvVars>>

\* SetupNodeByRole switching roles by force: a running process is stopped
SetupIsRunning_ForceStop ==
    /\ pc[Rec] = "isrunning"
    /\ \E o \in StatusOutputs(running) :
         /\ obs' = [obs EXCEPT ![Rec] = Append(@, IsRunning(o))]
         /\ IF IsRunning(o)
            THEN /\ pc' = [pc EXCEPT ![Rec] = "stop_isrunning"]
                 /\ UNCHANGED err
            ELSE IF roleInfo[Rec].Role = RoleHead
            THEN /\ pc' = [pc EXCEPT ![Rec] = "starthead_isrunning"]
                 /\ UNCHANGED err
            ELSE IF roleInfo[Rec].Role = RoleWorker
            THEN IF roleInfo[Rec].HeadIP = <<>>
                 THEN /\ err' = [err EXCEPT ![Rec] = "cannot_start_worker"]
                      /\ pc' = [pc EXCEPT ![Rec] = "ret"]
                 ELSE /\ pc' = [pc EXCEPT ![Rec] = "startworker_isrunning"]
                      /\ UNCHANGED err
            ELSE /\ err' = [err EXCEPT ![Rec] = "unknown_role"]
                 /\ pc' = [pc EXCEPT ![Rec] = "ret"]
    /\ UNCHANGED <<running, runRole, runAddr, roleInfo, currentRole, cmds,
                   result, resp, httpStatus, ticks, apiCalls,
                   startWhileRunning, startsSinceStop>>
    /\ UNCHANGED <<roleQueries, args, outText>>
    /\ UNCHANGED <<cacheVars, hbVars, refVars, srvVars>>

\* ray/service.go:184-200: refuse when running, else start the assigned role
SetupIsRunning ==
    /\ pc[Rec] = "isrunning"
    /\ \E o \in StatusOutputs(running) :
         /\ obs' = [obs EXCEPT ![Rec] = Append(@, IsRunning(o))]
         /\ IF IsRunning(o)
            THEN /\ err' = [err EXCEPT ![Rec] = "already_running"]
                 /\ pc' = [pc EXCEPT ![Rec] = "ret"]
            ELSE IF roleInfo[Rec].Role = RoleHead
            THEN /\ pc' = [pc EXCEPT ![Rec] = "starthead_isrunning"]
                 /\ UNCHANGED err
            ELSE IF roleInfo[Rec].Role = RoleWorker
            THEN IF roleInfo[Rec].HeadIP = <<>>
                 THEN /\ err' = [err EXCEPT ![Rec] = "cannot_start_worker"]
                      /\ pc' = [pc EXCEPT ![Rec] = "ret"]
                 ELSE /\ pc' = [pc EXCEPT ![Rec] = "startworker_isrunning"]
                      /\ UNCHANGED err
            ELSE /\ err' = [err EXCEPT ![Rec] = "unknown_role"]
                 /\ pc' = [pc EXCEPT ![Rec] = "ret"]
    /\ UNCHANGED <<running, runRole, runAddr, roleInfo, currentRole, cmds,
                   result, resp, httpStatus, ticks, apiCalls,
                   startWhileRunning, startsSinceStop>>
    /\ UNCHANGED <<roleQueries, args, outText>>
    /\ UNCHANGED <<cacheVars, hbVars, refVars, srvVars>>

\* ray/service.go:204-208: StartHead's own check
StartHeadCheck(t) ==
    /\ pc[t] = "starthead_isrunning"
    /\ \E o \in StatusOutputs(running) :
         /\ obs' = [obs EXCEPT ![t] = Append(@, IsRunning(o))]
         /\ IF IsRunning(o)
            THEN /\ err' = [err EXCEPT ![t] = "already_running"]
                 /\ pc' = [pc EXCEPT ![t] = Ret(t)]
            ELSE /\ pc' = [pc EXCEPT ![t] = "starthead_exec"]
                 /\ UNCHANGED err
    /\ UNCHANGED <<running, runRole, runAddr, roleInfo, currentRole, cmds,
                   result, resp, httpStatus, ticks, apiCalls,
                   startWhileRunning, startsSinceStop>>
    /\ UNCHANGED <<roleQueries, args, outText>>
    /\ UNCHANGED <<cacheVars, hbVars, refVars, srvVars>>

\* ray/service.go:210-229: `ray start --head --port=6379 --dashboard-host=0.0.0.0`
StartHeadExec(t) ==
    /\ pc[t] = "starthead_exec"
    /\ cmds' = [cmds EXCEPT ![t] = Append(@, "start_head")]
    /\ startWhileRunning' = (startWhileRunning \/ running)
    /\ startsSinceStop' = Cap2(startsSinceStop)
    /\ args' = [args EXCEPT ![t] = StartHeadArgs]
    /\ \E ok \in BOOLEAN, out \in OutTexts(t) :
         IF ok
         THEN /\ running' = TRUE
              /\ runRole' = RoleHead
              /\ runAddr' = <<>>
              /\ result' = [result EXCEPT ![t] = HeadId]
              /\ UNCHANGED <<err, outText>>
         ELSE /\ err' = [err EXCEPT ![t] = "start_failed"]
              /\ outText' = [outText EXCEPT ![t] = out]
              /\ UNCHANGED <<running, runRole, runAddr, result>>
    /\ pc' = [pc EXCEPT ![t] = Ret(t)]
    /\ UNCHANGED <<roleInfo, currentRole, obs, resp, httpStatus, ticks, apiCalls>>
    /\ UNCHANGED roleQueries
    /\ UNCHANGED <<cacheVars, hbVars, refVars, srvVars>>

\* ray/service.go:232-236: StartWorker's own check
StartWorkerCheck(t) ==
    /\ pc[t] = "startworker_isrunning"
    /\ \E o \in StatusOutputs(running) :
         /\ obs' = [obs EXCEPT ![t] = Append(@, IsRunning(o))]
         /\ IF IsRunning(o)
            THEN /\ err' = [err EXCEPT ![t] = "already_running"]
                 /\ pc' = [pc EXCEPT ![t] = Ret(t)]
            ELSE /\ pc' = [pc EXCEPT ![t] = "startworker_exec"]
                 /\ UNCHANGED err
    /\ UNCHANGED <<running, runRole, runAddr, roleInfo, currentRole, cmds,
                   result, resp, httpStatus, ticks, apiCalls,
                   startWhileRunning, startsSinceStop>>
    /\ UNCHANGED <<roleQueries, args, outText>>
    /\ UNCHANGED <<cacheVars, hbVars, refVars, srvVars>>

\* ray/service.go:238-255: `ray start --address <headIP>:6379`
StartWorkerExec(t) ==
    /\ pc[t] = "startworker_exec"
    /\ cmds' = [cmds EXCEPT ![t] = Append(@, "start_worker")]
    /\ startWhileRunning' = (startWhileRunning \/ running)
    /\ startsSinceStop' = Cap2(startsSinceStop)
    /\ args' = [args EXCEPT ![t] = StartWorkerArgs(roleInfo[t].HeadIP)]
    /\ \E ok \in BOOLEAN, out \in OutTexts(t) :
         IF ok
         THEN /\ running' = TRUE
              /\ runRole' = RoleWorker
              /\ runAddr' = roleInfo[t].HeadIP
              /\ result' = [result EXCEPT ![t] = WorkerId(roleInfo[t].HeadIP)]
              /\ UNCHANGED <<err, outText>>
         ELSE /\ err' = [err EXCEPT ![t] = "start_failed"]
              /\ outText' = [outText EXCEPT ![t] = out]
              /\ UNCHANGED <<running, runRole, runAddr, result>>
    /\ pc' = [pc EXCEPT ![t] = Ret(t)]
    /\ UNCHANGED <<roleInfo, currentRole, obs, resp, httpStatus, ticks, apiCalls>>
    /\ UNCHANGED roleQueries
    /\ UNCHANGED <<cacheVars, hbVars, refVars, srvVars>>

\* the goroutine returning when SetupNodeByRole failed
RecReturn_ExitOnError ==
    /\ pc[Rec] = "ret"
    /\ pc' = [pc EXCEPT ![Rec] = IF err[Rec] # "none" THEN "exit" ELSE "wait"]
    /\ UNCHANGED <<running, runRole, runAddr, roleInfo, currentRole, obs, cmds,
                   result, err, resp, httpStatus, ticks, apiCalls,
                   startWhileRunning, startsSinceStop>>
    /\ UNCHANGED <<roleQueries, args, outText>>
    /\ UNCHANGED <<cacheVars, hbVars, refVars, srvVars>>

\* ray/service.go:415-417,434-440: SetupNodeByRole returned; log and wait
RecReturn ==
    /\ pc[Rec] = "ret"
    /\ pc' = [pc EXCEPT ![Rec] = "wait"]
    /\ UNCHANGED <<running, runRole, runAddr, roleInfo, currentRole, obs, cmds,
                   result, err, resp, httpStatus, ticks, apiCalls,
                   startWhileRunning, startsSinceStop>>
    /\ UNCHANGED <<roleQueries, args, outText>>
    /\ UNCHANGED <<cacheVars, hbVars, refVars, srvVars>>

\* api/handlers.go:74-82: POST /start/head binds the body, calls StartHead
ApiStartHead(p) ==
    /\ pc[p] = "idle"
    /\ apiCalls < MaxApiCalls
    /\ apiCalls' = apiCalls + 1
    /\ obs' = [obs EXCEPT ![p] = <<>>]
    /\ cmds' = [cmds EXCEPT ![p] = <<>>]
    /\ result' = [result EXCEPT ![p] = <<>>]
    /\ err' = [err EXCEPT ![p] = "none"]
    /\ \E bodyOK \in BOOLEAN :
         IF ~bodyOK
         THEN /\ httpStatus' = [httpStatus EXCEPT ![p] = 400]
              /\ UNCHANGED <<pc, roleInfo>>
         ELSE /\ httpStatus' = [httpStatus EXCEPT ![p] = 0]
              /\ roleInfo' = [roleInfo EXCEPT
                     ![p] = [Role |-> RoleHead, HeadIP |-> <<>>]]
              /\ pc' = [pc EXCEPT ![p] = "starthead_isrunning"]
    /\ UNCHANGED <<running, runRole, runAddr, currentRole, resp, ticks,
                   startWhileRunning, startsSinceStop>>
    /\ args' = [args EXCEPT ![p] = <<>>]
    /\ outText' = [outText EXCEPT ![p] = ""]
    /\ UNCHANGED roleQueries
    /\ UNCHANGED <<cacheVars, hbVars, refVars, srvVars>>

\* api/handlers.go:102-110: POST /start/worker, headIP is a required field
ApiStartWorker(p) ==
    /\ pc[p] = "idle"
    /\ apiCalls < MaxApiCalls
    /\ apiCalls' = apiCalls + 1
    /\ obs' = [obs EXCEPT ![p] = <<>>]
    /\ cmds' = [cmds EXCEPT ![p] = <<>>]
    /\ result' = [result EXCEPT ![p] = <<>>]
    /\ err' = [err EXCEPT ![p] = "none"]
    /\ \E bodyOK \in BOOLEAN, headIP \in HeadIPs :
         IF ~bodyOK \/ headIP = <<>>
         THEN /\ httpStatus' = [httpStatus EXCEPT ![p] = 400]
              /\ UNCHANGED <<pc, roleInfo>>
         ELSE /\ httpStatus' = [httpStatus EXCEPT ![p] = 0]
              /\ roleInfo' = [roleInfo EXCEPT
                     ![p] = [Role |-> RoleWorker, HeadIP |-> headIP]]
              /\ pc' = [pc EXCEPT ![p] = "startworker_isrunning"]
    /\ UNCHANGED <<running, runRole, runAddr, currentRole, resp, ticks,
                   startWhileRunning, startsSinceStop>>
    /\ args' = [args EXCEPT ![p] = <<>>]
    /\ outText' = [outText EXCEPT ![p] = ""]
    /\ UNCHANGED roleQueries
    /\ UNCHANGED <<cacheVars, hbVars, refVars, srvVars>>

\* api/handlers.go:131-132: POST /stop calls StopNode
ApiStopNode(p) ==
    /\ pc[p] = "idle"
    /\ apiCalls < MaxApiCalls
    /\ apiCalls' = apiCalls + 1
    /\ obs' = [obs EXCEPT ![p] = <<>>]
    /\ cmds' = [cmds EXCEPT ![p] = <<>>]
    /\ result' = [result EXCEPT ![p] = <<>>]
    /\ err' = [err EXCEPT ![p] = "none"]
    /\ httpStatus' = [httpStatus EXCEPT ![p] = 0]
    /\ roleInfo' = [roleInfo EXCEPT ![p] = NoRole]
    /\ pc' = [pc EXCEPT ![p] = "stop_isrunning"]
    /\ UNCHANGED <<running, runRole, runAddr, currentRole, resp, ticks,
                   startWhileRunning, startsSinceStop>>
    /\ args' = [args EXCEPT ![p] = <<>>]
    /\ outText' = [outText EXCEPT ![p] = ""]
    /\ UNCHANGED roleQueries
    /\ UNCHANGED <<cacheVars, hbVars, refVars, srvVars>>

\* the text of an error of the controller, as the phrases the handlers look
\* for in it.  The refusals are ray/service.go:207,235 ("ray is already
\* running ...") and 261 ("ray is not running, nothing to stop"); a failed
\* command's error embeds the command's output (service.go:221,247,267).
ErrorPhrases(e, out) ==
    IF e = "already_running" THEN {"already running"}
    ELSE IF e = "not_running" THEN {"not running"}
    ELSE IF e \in {"start_failed", "stop_failed"} THEN {out} \ {""}
    ELSE {}

\* the handler a request is in: stopNode carries no role
Handler(p) == IF roleInfo[p].Role = "" THEN "stop" ELSE "start"

\* api/handlers.go:83-98,111-127,132-146: the handler maps the error to a
\* status by strings.Contains on its text
StatusOf(handler, e, out) ==
    IF e = "none" THEN 200
    ELSE IF handler = "start" /\ "already running" \in ErrorPhrases(e, out)
    THEN 409
    ELSE IF handler = "stop" /\ "not running" \in ErrorPhrases(e, out)
    THEN 412
    ELSE 500

ApiRespond(p) ==
    /\ pc[p] = "respond"
    /\ httpStatus' = [httpStatus EXCEPT
           ![p] = StatusOf(Handler(p), err[p], outText[p])]
    /\ pc' = [pc EXCEPT ![p] = "idle"]
    /\ UNCHANGED <<running, runRole, runAddr, roleInfo, currentRole, obs, cmds,
                   result, err, resp, ticks, apiCalls,
                   startWhileRunning, startsSinceStop>>
    /\ UNCHANGED <<roleQueries, args, outText>>
    /\ UNCHANGED <<cacheVars, hbVars, refVars, srvVars>>

RayNext ==
    \/ RecGo
    \/ TickerFire
    \/ LoopGetRole
    \/ SetupGetRole
    \/ NoneIsRunning
    \/ ClearStep
    \/ SetupIsRunning
    \/ RecReturn
    \/ \E t \in Threads : StopNodeCheck(t)
    \/ \E t \in Threads : StopNodeExec(t)
    \/ \E t \in Threads : StartHeadCheck(t)
    \/ \E t \in Threads : StartHeadExec(t)
    \/ \E t \in Threads : StartWorkerCheck(t)
    \/ \E t \in Threads : StartWorkerExec(t)
    \/ \E p \in ApiProcs : ApiStartHead(p)
    \/ \E p \in ApiProcs : ApiStartWorker(p)
    \/ \E p \in ApiProcs : ApiStopNode(p)
    \/ \E p \in ApiProcs : ApiRespond(p)


\* ------------------------------------------------------------- the caches
TTL(k) == IF k = "geo" THEN GeoTTL ELSE BwTTL

CacheInit ==
    /\ now = 1
    /\ cacheVal = [k \in Caches |-> 0]
    /\ expiry = [k \in Caches |-> 0]
    /\ writer = [k \in Caches |-> "none"]
    /\ readers = [k \in Caches |-> {}]
    /\ cpc = [c \in AllCallers |-> "idle"]
    /\ ckind = [c \in AllCallers |-> "geo"]
    /\ cforce = [c \in AllCallers |-> FALSE]
    /\ ret = [c \in AllCallers |-> 0]
    /\ cerr = [c \in AllCallers |-> "none"]
    /\ seen = [c \in AllCallers |-> 0]
    /\ path = [c \in AllCallers |-> ""]
    /\ fetchCount = [k \in Caches |-> 0]
    /\ okCount = [k \in Caches |-> 0]
    /\ forcedEver = [k \in Caches |-> FALSE]
    /\ staleVals = [k \in Caches |-> {}]
    /\ staleFail = [k \in Caches |-> FALSE]
    /\ sawFail = [c \in AllCallers |-> FALSE]
    /\ calls = 0
    /\ advances = 0
    /\ expOf = [k \in Caches |-> 0]
    /\ seenExp = [c \in AllCallers |-> 0]

\* the clock moves between any two steps
Advance ==
    /\ advances < MaxAdvances
    /\ advances' = advances + 1
    /\ \E d \in {RetryDelay, GeoTTL, BwTTL} : now' = now + d
    /\ UNCHANGED <<cacheVal, expiry, writer, readers, cpc, ckind, cforce, ret,
                   cerr, seen, path, fetchCount, okCount, forcedEver,
                   staleVals, calls,
                   staleFail, sawFail>>
    /\ UNCHANGED <<expOf, seenExp>>
    /\ UNCHANGED <<rayVars, hbVars, refVars, srvVars>>

\* a check that found a stored value past its expiry (history only)
NoteStale(k) ==
    staleVals' = [staleVals EXCEPT ![k] =
        IF cacheVal[k] # 0 /\ ~(now < expiry[k]) THEN @ \cup {cacheVal[k]} ELSE @]

\* the freshness test with the comparison turned round
GeoFresh_After == cacheVal["geo"] # 0 /\ ~(now < expiry["geo"])

\* resource/manager.go:143,154: geoCache != nil && time.Now().Before(geoExpiry)
GeoFresh == cacheVal["geo"] # 0 /\ now < expiry["geo"]

\* the freshness test without the forceUpdate operand
BwFresh_IgnoreForce(forceUpdate) == cacheVal["bw"] # 0 /\ now < expiry["bw"]

\* resource/manager.go:199,210:
\* !forceUpdate && bwCache != nil && time.Now().Before(bwExpiry)
BwFresh(forceUpdate) == ~forceUpdate /\ cacheVal["bw"] # 0 /\ now < expiry["bw"]

\* resource/manager.go:141: a goroutine enters GetGeoLocation
GeoBegin(c) ==
    /\ cpc[c] = "idle"
    /\ calls < MaxCalls
    /\ calls' = calls + 1
    /\ ckind' = [ckind EXCEPT ![c] = "geo"]
    /\ cforce' = [cforce EXCEPT ![c] = FALSE]
    /\ ret' = [ret EXCEPT ![c] = 0]
    /\ cerr' = [cerr EXCEPT ![c] = "none"]
    /\ seen' = [seen EXCEPT ![c] = 0]
    /\ path' = [path EXCEPT ![c] = ""]
    /\ sawFail' = [sawFail EXCEPT ![c] = staleFail["geo"]]
    /\ cpc' = [cpc EXCEPT ![c] = "rlock"]
    /\ UNCHANGED <<now, cacheVal, expiry, writer, readers, fetchCount, okCount,
                   forcedEver, staleVals, advances,
                   staleFail>>
    /\ seenExp' = [seenExp EXCEPT ![c] = 0]
    /\ UNCHANGED expOf
    /\ UNCHANGED <<rayVars, hbVars, refVars, srvVars>>

\* resource/manager.go:142: geoMutex.RLock()
GeoRLock(c) ==
    /\ cpc[c] = "rlock" /\ ckind[c] = "geo"
    /\ writer["geo"] = "none"
    /\ readers' = [readers EXCEPT !["geo"] = @ \cup {c}]
    /\ cpc' = [cpc EXCEPT ![c] = "rcheck"]
    /\ UNCHANGED <<now, cacheVal, expiry, writer, ckind, cforce, ret, cerr,
                   seen, path, fetchCount, okCount, forcedEver, staleVals,
                   calls, advances,
                   staleFail, sawFail>>
    /\ UNCHANGED <<expOf, seenExp>>
    /\ UNCHANGED <<rayVars, hbVars, refVars, srvVars>>

\* resource/manager.go:143-147: the check under the read lock
GeoCheck(c) ==
    /\ cpc[c] = "rcheck" /\ ckind[c] = "geo"
    /\ seen' = [seen EXCEPT ![c] = cacheVal["geo"]]
    /\ NoteStale("geo")
    /\ readers' = [readers EXCEPT !["geo"] = @ \ {c}]
    /\ IF GeoFresh
       THEN /\ ret' = [ret EXCEPT ![c] = cacheVal["geo"]]
            /\ path' = [path EXCEPT ![c] = "fast"]
            /\ cpc' = [cpc EXCEPT ![c] = "idle"]
       ELSE /\ cpc' = [cpc EXCEPT ![c] = "wlock"]
            /\ UNCHANGED <<ret, path>>
    /\ UNCHANGED <<now, cacheVal, expiry, writer, ckind, cforce, cerr,
                   fetchCount, okCount, forcedEver, calls, advances,
                   staleFail, sawFail>>
    /\ seenExp' = [seenExp EXCEPT ![c] = expOf["geo"]]
    /\ UNCHANGED expOf
    /\ UNCHANGED <<rayVars, hbVars, refVars, srvVars>>

\* resource/manager.go:150-151: geoMutex.Lock()
GeoLock(c) ==
    /\ cpc[c] = "wlock" /\ ckind[c] = "geo"
    /\ writer["geo"] = "none" /\ readers["geo"] = {}
    /\ writer' = [writer EXCEPT !["geo"] = c]
    /\ cpc' = [cpc EXCEPT ![c] = "recheck"]
    /\ UNCHANGED <<now, cacheVal, expiry, readers, ckind, cforce, ret, cerr,
                   seen, path, fetchCount, okCount, forcedEver, staleVals,
                   calls, advances,
                   staleFail, sawFail>>
    /\ UNCHANGED <<expOf, seenExp>>
    /\ UNCHANGED <<rayVars, hbVars, refVars, srvVars>>

\* the write-lock section without the second check: it always fetches
GeoRecheck_NoSecondCheck(c) ==
    /\ cpc[c] = "recheck" /\ ckind[c] = "geo"
    /\ NoteStale("geo")
    /\ IF FALSE
       THEN /\ ret' = [ret EXCEPT ![c] = cacheVal["geo"]]
            /\ path' = [path EXCEPT ![c] = "recheck"]
            /\ writer' = [writer EXCEPT !["geo"] = "none"]
            /\ cpc' = [cpc EXCEPT ![c] = "idle"]
            /\ UNCHANGED fetchCount
       ELSE /\ fetchCount' = [fetchCount EXCEPT !["geo"] = @ + 1]
            /\ path' = [path EXCEPT ![c] = "fetch"]
            /\ cpc' = [cpc EXCEPT ![c] = "fetch"]
            /\ UNCHANGED <<ret, writer>>
    /\ UNCHANGED <<now, cacheVal, expiry, readers, ckind, cforce, cerr, seen,
                   okCount, forcedEver, calls, advances,
                   staleFail, sawFail>>
    /\ seenExp' = [seenExp EXCEPT ![c] = expOf["geo"]]
    /\ UNCHANGED expOf
    /\ UNCHANGED <<rayVars, hbVars, refVars, srvVars>>

\* resource/manager.go:153-159: the second check, under the write lock
GeoRecheck(c) ==
    /\ cpc[c] = "recheck" /\ ckind[c] = "geo"
    /\ NoteStale("geo")
    /\ IF GeoFresh
       THEN /\ ret' = [ret EXCEPT ![c] = cacheVal["geo"]]
            /\ path' = [path EXCEPT ![c] = "recheck"]
            /\ writer' = [writer EXCEPT !["geo"] = "none"]
            /\ cpc' = [cpc EXCEPT ![c] = "idle"]
            /\ UNCHANGED fetchCount
       ELSE /\ fetchCount' = [fetchCount EXCEPT !["geo"] = @ + 1]
            /\ path' = [path EXCEPT ![c] = "fetch"]
            /\ cpc' = [cpc EXCEPT ![c] = "fetch"]
            /\ UNCHANGED <<ret, writer>>
    /\ UNCHANGED <<now, cacheVal, expiry, readers, ckind, cforce, cerr, seen,
                   okCount, forcedEver, calls, advances,
                   staleFail, sawFail>>
    /\ seenExp' = [seenExp EXCEPT ![c] = expOf["geo"]]
    /\ UNCHANGED expOf
    /\ UNCHANGED <<rayVars, hbVars, refVars, srvVars>>

\* the fetch with a failure dropping the stored value
GeoFetch_ClearOnFail(c) ==
    /\ cpc[c] = "fetch" /\ ckind[c] = "geo"
    /\ \E outcome \in {"ok", "get_err", "read_err", "parse_err"} :
         IF outcome = "ok"
         THEN /\ cacheVal' = [cacheVal EXCEPT !["geo"] = fetchCount["geo"]]
              /\ okCount' = [okCount EXCEPT !["geo"] = @ + 1]
              /\ ret' = [ret EXCEPT ![c] = fetchCount["geo"]]
              /\ cpc' = [cpc EXCEPT ![c] = "store_expiry"]
              /\ UNCHANGED <<cerr, staleFail, writer, expiry>>
         ELSE /\ cerr' = [cerr EXCEPT ![c] = outcome]
              /\ ret' = [ret EXCEPT ![c] = 0]
              /\ staleFail' = [staleFail EXCEPT !["geo"] = @ \/ cacheVal["geo"] # 0]
              /\ writer' = [writer EXCEPT !["geo"] = "none"]
              /\ cpc' = [cpc EXCEPT ![c] = "idle"]
              /\ cacheVal' = [cacheVal EXCEPT !["geo"] = 0]
              /\ UNCHANGED <<expiry, okCount>>
    /\ UNCHANGED <<now, readers, ckind, cforce, seen, path, fetchCount,
                   forcedEver, staleVals, calls, advances,
                   sawFail>>
    /\ UNCHANGED <<expOf, seenExp>>
    /\ UNCHANGED <<rayVars, hbVars, refVars, srvVars>>

\* the geo fetch returning its error without releasing the write lock
GeoFetch_KeepLockOnFail(c) ==
    /\ cpc[c] = "fetch" /\ ckind[c] = "geo"
    /\ \E outcome \in {"ok", "get_err", "read_err", "parse_err"} :
         IF outcome = "ok"
         THEN /\ cacheVal' = [cacheVal EXCEPT !["geo"] = fetchCount["geo"]]
              /\ okCount' = [okCount EXCEPT !["geo"] = @ + 1]
              /\ ret' = [ret EXCEPT ![c] = fetchCount["geo"]]
              /\ cpc' = [cpc EXCEPT ![c] = "store_expiry"]
              /\ UNCHANGED <<cerr, staleFail, writer, expiry>>
         ELSE /\ cerr' = [cerr EXCEPT ![c] = outcome]
              /\ ret' = [ret EXCEPT ![c] = 0]
              /\ staleFail' = [staleFail EXCEPT !["geo"] = @ \/ cacheVal["geo"] # 0]
              /\ cpc' = [cpc EXCEPT ![c] = "idle"]
              /\ UNCHANGED <<cacheVal, expiry, okCount, writer>>
    /\ UNCHANGED <<now, readers, ckind, cforce, seen, path, fetchCount,
                   forcedEver, staleVals, calls, advances,
                   sawFail>>
    /\ UNCHANGED <<expOf, seenExp>>
    /\ UNCHANGED <<rayVars, hbVars, refVars, srvVars>>

\* resource/manager.go:159-190: the request to ip-api.com ends; on success the
\* value is stored (190), on any error nothing is and the call returns
GeoFetch(c) ==
    /\ cpc[c] = "fetch" /\ ckind[c] = "geo"
    /\ \E outcome \in {"ok", "get_err", "read_err", "parse_err"} :
         IF outcome = "ok"
         THEN /\ cacheVal' = [cacheVal EXCEPT !["geo"] = fetchCount["geo"]]
              /\ okCount' = [okCount EXCEPT !["geo"] = @ + 1]
              /\ ret' = [ret EXCEPT ![c] = fetchCount["geo"]]
              /\ cpc' = [cpc EXCEPT ![c] = "store_expiry"]
              /\ UNCHANGED <<cerr, staleFail, writer, expiry>>
         ELSE /\ cerr' = [cerr EXCEPT ![c] = outcome]
              /\ ret' = [ret EXCEPT ![c] = 0]
              /\ staleFail' = [staleFail EXCEPT !["geo"] = @ \/ cacheVal["geo"] # 0]
              /\ writer' = [writer EXCEPT !["geo"] = "none"]
              /\ cpc' = [cpc EXCEPT ![c] = "idle"]
              /\ UNCHANGED <<cacheVal, expiry, okCount>>
    /\ UNCHANGED <<now, readers, ckind, cforce, seen, path, fetchCount,
                   forcedEver, staleVals, calls, advances,
                   sawFail>>
    /\ UNCHANGED <<expOf, seenExp>>
    /\ UNCHANGED <<rayVars, hbVars, refVars, srvVars>>

\* resource/manager.go:191: m.geoExpiry = time.Now().Add(...), still inside the
\* exclusive section, which the deferred Unlock then leaves
GeoStoreExpiry(c) ==
    /\ cpc[c] = "store_expiry" /\ ckind[c] = "geo"
    /\ expiry' = [expiry EXCEPT !["geo"] = now + GeoTTL]
    /\ expOf' = [expOf EXCEPT !["geo"] = cacheVal["geo"]]
    /\ writer' = [writer EXCEPT !["geo"] = "none"]
    /\ cpc' = [cpc EXCEPT ![c] = "idle"]
    /\ UNCHANGED <<now, cacheVal, readers, ckind, cforce, ret, cerr, seen, path,
                   fetchCount, okCount, forcedEver, staleVals, calls, advances,
                   staleFail, sawFail, seenExp>>
    /\ UNCHANGED <<rayVars, hbVars, refVars, srvVars>>

\* resource/manager.go:197: a goroutine enters GetBandwidth(forceUpdate)
BwBegin(c) ==
    /\ cpc[c] = "idle"
    /\ calls < MaxCalls
    /\ calls' = calls + 1
    /\ \E forceUpdate \in BOOLEAN :
         /\ cforce' = [cforce EXCEPT ![c] = forceUpdate]
         /\ forcedEver' = [forcedEver EXCEPT !["bw"] = @ \/ forceUpdate]
    /\ ckind' = [ckind EXCEPT ![c] = "bw"]
    /\ ret' = [ret EXCEPT ![c] = 0]
    /\ cerr' = [cerr EXCEPT ![c] = "none"]
    /\ seen' = [seen EXCEPT ![c] = 0]
    /\ path' = [path EXCEPT ![c] = ""]
    /\ sawFail' = [sawFail EXCEPT ![c] = staleFail["bw"]]
    /\ cpc' = [cpc EXCEPT ![c] = "rlock"]
    /\ UNCHANGED <<now, cacheVal, expiry, writer, readers, fetchCount, okCount,
                   staleVals, advances,
                   staleFail>>
    /\ seenExp' = [seenExp EXCEPT ![c] = 0]
    /\ UNCHANGED expOf
    /\ UNCHANGED <<rayVars, hbVars, refVars, srvVars>>

\* the read lock granted while a writer is inside the exclusive section
BwRLock_IgnoreWriter(c) ==
    /\ cpc[c] = "rlock" /\ ckind[c] = "bw"
    /\ readers' = [readers EXCEPT !["bw"] = @ \cup {c}]
    /\ cpc' = [cpc EXCEPT ![c] = "rcheck"]
    /\ UNCHANGED <<now, cacheVal, expiry, writer, ckind, cforce, ret, cerr,
                   seen, path, fetchCount, okCount, forcedEver, staleVals,
                   calls, advances,
                   staleFail, sawFail>>
    /\ UNCHANGED <<expOf, seenExp>>
    /\ UNCHANGED <<rayVars, hbVars, refVars, srvVars>>

\* resource/manager.go:198: bwMutex.RLock()
BwRLock(c) ==
    /\ cpc[c] = "rlock" /\ ckind[c] = "bw"
    /\ writer["bw"] = "none"
    /\ readers' = [readers EXCEPT !["bw"] = @ \cup {c}]
    /\ cpc' = [cpc EXCEPT ![c] = "rcheck"]
    /\ UNCHANGED <<now, cacheVal, expiry, writer, ckind, cforce, ret, cerr,
                   seen, path, fetchCount, okCount, forcedEver, staleVals,
                   calls, advances,
                   staleFail, sawFail>>
    /\ UNCHANGED <<expOf, seenExp>>
    /\ UNCHANGED <<rayVars, hbVars, refVars, srvVars>>

\* resource/manager.go:199-203: the check under the read lock
BwCheck(c) ==
    /\ cpc[c] = "rcheck" /\ ckind[c] = "bw"
    /\ seen' = [seen EXCEPT ![c] = cacheVal["bw"]]
    /\ NoteStale("bw")
    /\ readers' = [readers EXCEPT !["bw"] = @ \ {c}]
    /\ IF BwFresh(cforce[c])
       THEN /\ ret' = [ret EXCEPT ![c] = cacheVal["bw"]]
            /\ path' = [path EXCEPT ![c] = "fast"]
            /\ cpc' = [cpc EXCEPT ![c] = "idle"]
       ELSE /\ cpc' = [cpc EXCEPT ![c] = "wlock"]
            /\ UNCHANGED <<ret, path>>
    /\ UNCHANGED <<now, cacheVal, expiry, writer, ckind, cforce, cerr,
                   fetchCount, okCount, forcedEver, calls, advances,
                   staleFail, sawFail>>
    /\ seenExp' = [seenExp EXCEPT ![c] = expOf["bw"]]
    /\ UNCHANGED expOf
    /\ UNCHANGED <<rayVars, hbVars, refVars, srvVars>>

\* the write lock handed out while another goroutine holds the mutex
BwLock_NoExclusion(c) ==
    /\ cpc[c] = "wlock" /\ ckind[c] = "bw"
    /\ writer' = [writer EXCEPT !["bw"] = c]
    /\ cpc' = [cpc EXCEPT ![c] = "recheck"]
    /\ UNCHANGED <<now, cacheVal, expiry, readers, ckind, cforce, ret, cerr,
                   seen, path, fetchCount, okCount, forcedEver, staleVals,
                   calls, advances,
                   staleFail, sawFail>>
    /\ UNCHANGED <<expOf, seenExp>>
    /\ UNCHANGED <<rayVars, hbVars, refVars, srvVars>>

\* resource/manager.go:206-207: bwMutex.Lock()
BwLock(c) ==
    /\ cpc[c] = "wlock" /\ ckind[c] = "bw"
    /\ writer["bw"] = "none" /\ readers["bw"] = {}
    /\ writer' = [writer EXCEPT !["bw"] = c]
    /\ cpc' = [cpc EXCEPT ![c] = "recheck"]
    /\ UNCHANGED <<now, cacheVal, expiry, readers, ckind, cforce, ret, cerr,
                   seen, path, fetchCount, okCount, forcedEver, staleVals,
                   calls, advances,
                   staleFail, sawFail>>
    /\ UNCHANGED <<expOf, seenExp>>
    /\ UNCHANGED <<rayVars, hbVars, refVars, srvVars>>

\* resource/manager.go:209-214: the second check, under the write lock
BwRecheck(c) ==
    /\ cpc[c] = "recheck" /\ ckind[c] = "bw"
    /\ NoteStale("bw")
    /\ IF BwFresh(cforce[c])
       THEN /\ ret' = [ret EXCEPT ![c] = cacheVal["bw"]]
            /\ path' = [path EXCEPT ![c] = "recheck"]
            /\ writer' = [writer EXCEPT !["bw"] = "none"]
            /\ cpc' = [cpc EXCEPT ![c] = "idle"]
            /\ UNCHANGED fetchCount
       ELSE /\ fetchCount' = [fetchCount EXCEPT !["bw"] = @ + 1]
            /\ path' = [path EXCEPT ![c] = "fetch"]
            /\ cpc' = [cpc EXCEPT ![c] = "fetch"]
            /\ UNCHANGED <<ret, writer>>
    /\ UNCHANGED <<now, cacheVal, expiry, readers, ckind, cforce, cerr, seen,
                   okCount, forcedEver, calls, advances,
                   staleFail, sawFail>>
    /\ seenExp' = [seenExp EXCEPT ![c] = expOf["bw"]]
    /\ UNCHANGED expOf
    /\ UNCHANGED <<rayVars, hbVars, refVars, srvVars>>

\* the measurement with a failure resetting the cache to empty
BwFetch_ClearOnFail(c) ==
    /\ cpc[c] = "fetch" /\ ckind[c] = "bw"
    /\ \E outcome \in {"ok", "servers_err", "no_servers"} :
         IF outcome = "ok"
         THEN /\ cacheVal' = [cacheVal EXCEPT !["bw"] = fetchCount["bw"]]
              /\ okCount' = [okCount EXCEPT !["bw"] = @ + 1]
              /\ ret' = [ret EXCEPT ![c] = fetchCount["bw"]]
              /\ cpc' = [cpc EXCEPT ![c] = "store_expiry"]
              /\ UNCHANGED <<cerr, staleFail, writer, expiry>>
         ELSE /\ cerr' = [cerr EXCEPT ![c] = outcome]
              /\ ret' = [ret EXCEPT ![c] = 0]
              /\ staleFail' = [staleFail EXCEPT !["bw"] = @ \/ cacheVal["bw"] # 0]
              /\ writer' = [writer EXCEPT !["bw"] = "none"]
              /\ cpc' = [cpc EXCEPT ![c] = "idle"]
              /\ cacheVal' = [cacheVal EXCEPT !["bw"] = 0]
              /\ expiry' = [expiry EXCEPT !["bw"] = 0]
              /\ UNCHANGED okCount
    /\ UNCHANGED <<now, readers, ckind, cforce, seen, path, fetchCount,
                   forcedEver, staleVals, calls, advances,
                   sawFail>>
    /\ UNCHANGED <<expOf, seenExp>>
    /\ UNCHANGED <<rayVars, hbVars, refVars, srvVars>>

\* resource/manager.go:214-241,247: the speed test ends; FetchServers can fail
\* or find no server, otherwise the first server's figures are stored (241)
BwFetch(c) ==
    /\ cpc[c] = "fetch" /\ ckind[c] = "bw"
    /\ \E outcome \in {"ok", "servers_err", "no_servers"} :
         IF outcome = "ok"
         THEN /\ cacheVal' = [cacheVal EXCEPT !["bw"] = fetchCount["bw"]]
              /\ okCount' = [okCount EXCEPT !["bw"] = @ + 1]
              /\ ret' = [ret EXCEPT ![c] = fetchCount["bw"]]
              /\ cpc' = [cpc EXCEPT ![c] = "store_expiry"]
              /\ UNCHANGED <<cerr, staleFail, writer, expiry>>
         ELSE /\ cerr' = [cerr EXCEPT ![c] = outcome]
              /\ ret' = [ret EXCEPT ![c] = 0]
              /\ staleFail' = [staleFail EXCEPT !["bw"] = @ \/ cacheVal["bw"] # 0]
              /\ writer' = [writer EXCEPT !["bw"] = "none"]
              /\ cpc' = [cpc EXCEPT ![c] = "idle"]
              /\ UNCHANGED <<cacheVal, expiry, okCount>>
    /\ UNCHANGED <<now, readers, ckind, cforce, seen, path, fetchCount,
                   forcedEver, staleVals, calls, advances,
                   sawFail>>
    /\ UNCHANGED <<expOf, seenExp>>
    /\ UNCHANGED <<rayVars, hbVars, refVars, srvVars>>

\* the bandwidth expiry set four hours ahead, as for the geo cache
BwStoreExpiry_GeoTTL(c) ==
    /\ cpc[c] = "store_expiry" /\ ckind[c] = "bw"
    /\ expiry' = [expiry EXCEPT !["bw"] = now + GeoTTL]
    /\ expOf' = [expOf EXCEPT !["bw"] = cacheVal["bw"]]
    /\ writer' = [writer EXCEPT !["bw"] = "none"]
    /\ cpc' = [cpc EXCEPT ![c] = "idle"]
    /\ UNCHANGED <<now, cacheVal, readers, ckind, cforce, ret, cerr, seen, path,
                   fetchCount, okCount, forcedEver, staleVals, calls, advances,
                   staleFail, sawFail, seenExp>>
    /\ UNCHANGED <<rayVars, hbVars, refVars, srvVars>>

\* resource/manager.go:242: m.bwExpiry = time.Now().Add(...), still inside the
\* exclusive section, which the deferred Unlock then leaves
BwStoreExpiry(c) ==
    /\ cpc[c] = "store_expiry" /\ ckind[c] = "bw"
    /\ expiry' = [expiry EXCEPT !["bw"] = now + BwTTL]
    /\ expOf' = [expOf EXCEPT !["bw"] = cacheVal["bw"]]
    /\ writer' = [writer EXCEPT !["bw"] = "none"]
    /\ cpc' = [cpc EXCEPT ![c] = "idle"]
    /\ UNCHANGED <<now, cacheVal, readers, ckind, cforce, ret, cerr, seen, path,
                   fetchCount, okCount, forcedEver, staleVals, calls, advances,
                   staleFail, sawFail, seenExp>>
    /\ UNCHANGED <<rayVars, hbVars, refVars, srvVars>>

CacheNext ==
    \/ Advance
    \/ \E c \in Callers : GeoBegin(c)
    \/ \E c \in Callers : GeoRLock(c)
    \/ \E c \in Callers : GeoCheck(c)
    \/ \E c \in Callers : GeoLock(c)
    \/ \E c \in Callers : GeoRecheck(c)
    \/ \E c \in Callers : GeoFetch(c)
    \/ \E c \in Callers : GeoStoreExpiry(c)
    \/ \E c \in Callers : BwBegin(c)
    \/ \E c \in Callers : BwRLock(c)
    \/ \E c \in Callers : BwCheck(c)
    \/ \E c \in Callers : BwLock(c)
    \/ \E c \in Callers : BwRecheck(c)
    \/ \E c \in Callers : BwFetch(c)
    \/ \E c \in Callers : BwStoreExpiry(c)


\* -------------------------------------------- the background refreshers
\* resource/manager.go:255,267: the cache a refresher calls, and whether it
\* passes forceUpdate (GetGeoLocation has no such parameter)
RefKind(r) == IF r = "rgeo" THEN "geo" ELSE "bw"
RefForce(r) == r = "rbw"

\* resource/manager.go:262,274: the sleep after a call that returned no error
GeoPeriod == 240
BwPeriod == 1440
Period(r) == IF r = "rgeo" THEN GeoPeriod ELSE BwPeriod

RefInit ==
    /\ rpc = [r \in Refreshers |-> "loop"]
    /\ wake = [r \in Refreshers |-> 0]
    /\ sleptAt = [r \in Refreshers |-> 0]
    /\ rounds = 0

\* resource/manager.go:254-255,266-267: the top of the loop, the call begins
RefresherCall(r) ==
    /\ rpc[r] = "loop"
    /\ rounds < MaxRounds
    /\ rounds' = rounds + 1
    /\ rpc' = [rpc EXCEPT ![r] = "call"]
    /\ ckind' = [ckind EXCEPT ![r] = RefKind(r)]
    /\ cforce' = [cforce EXCEPT ![r] = RefForce(r)]
    /\ forcedEver' = [forcedEver EXCEPT ![RefKind(r)] = @ \/ RefForce(r)]
    /\ ret' = [ret EXCEPT ![r] = 0]
    /\ cerr' = [cerr EXCEPT ![r] = "none"]
    /\ seen' = [seen EXCEPT ![r] = 0]
    /\ path' = [path EXCEPT ![r] = ""]
    /\ sawFail' = [sawFail EXCEPT ![r] = staleFail[RefKind(r)]]
    /\ seenExp' = [seenExp EXCEPT ![r] = 0]
    /\ cpc' = [cpc EXCEPT ![r] = "rlock"]
    /\ UNCHANGED <<now, cacheVal, expiry, writer, readers, fetchCount, okCount,
                   staleVals, staleFail, calls, advances, expOf>>
    /\ UNCHANGED <<wake, sleptAt>>
    /\ UNCHANGED <<rayVars, hbVars, srvVars>>

\* the refresher sleeping the nominal period whatever the call returned
RefresherSleep_AlwaysNominal(r) ==
    /\ rpc[r] = "call"
    /\ cpc[r] = "idle"
    /\ sleptAt' = [sleptAt EXCEPT ![r] = now]
    /\ wake' = [wake EXCEPT ![r] = now + Period(r)]
    /\ rpc' = [rpc EXCEPT ![r] = "sleep"]
    /\ UNCHANGED rounds
    /\ UNCHANGED <<rayVars, cacheVars, hbVars, srvVars>>

\* resource/manager.go:255-262,267-274: the call returned; time.Sleep of a
\* minute after an error, of the period otherwise
RefresherSleep(r) ==
    /\ rpc[r] = "call"
    /\ cpc[r] = "idle"
    /\ sleptAt' = [sleptAt EXCEPT ![r] = now]
    /\ wake' = [wake EXCEPT ![r] =
                  now + (IF cerr[r] # "none" THEN RetryDelay ELSE Period(r))]
    /\ rpc' = [rpc EXCEPT ![r] = "sleep"]
    /\ UNCHANGED rounds
    /\ UNCHANGED <<rayVars, cacheVars, hbVars, srvVars>>

\* time.Sleep returns once the duration has passed; `continue` or the end of
\* the body leads back to the top of the loop
RefresherWake(r) ==
    /\ rpc[r] = "sleep"
    /\ now >= wake[r]
    /\ rpc' = [rpc EXCEPT ![r] = "loop"]
    /\ UNCHANGED <<wake, sleptAt, rounds>>
    /\ UNCHANGED <<rayVars, cacheVars, hbVars, srvVars>>

\* the goroutine that calls the caches besides the refreshers: the
\* heartbeat loop in SendHeartbeat
HbCallers == {"c1"}
RefCallers == Refreshers \cup HbCallers

\* resource/manager.go:92: geo, _ := m.GetGeoLocation()
BeatGeoCall(c) ==
    /\ cpc[c] = "idle"
    /\ rounds < MaxRounds
    /\ rounds' = rounds + 1
    /\ ckind' = [ckind EXCEPT ![c] = "geo"]
    /\ cforce' = [cforce EXCEPT ![c] = FALSE]
    /\ ret' = [ret EXCEPT ![c] = 0]
    /\ cerr' = [cerr EXCEPT ![c] = "none"]
    /\ seen' = [seen EXCEPT ![c] = 0]
    /\ path' = [path EXCEPT ![c] = ""]
    /\ sawFail' = [sawFail EXCEPT ![c] = staleFail["geo"]]
    /\ seenExp' = [seenExp EXCEPT ![c] = 0]
    /\ cpc' = [cpc EXCEPT ![c] = "rlock"]
    /\ UNCHANGED <<now, cacheVal, expiry, writer, readers, fetchCount, okCount,
                   forcedEver, staleVals, staleFail, calls, advances, expOf>>
    /\ UNCHANGED <<rpc, wake, sleptAt>>
    /\ UNCHANGED <<rayVars, hbVars, srvVars>>

\* resource/manager.go:95: bw, _ := m.GetBandwidth(false)
BeatBwCall(c) ==
    /\ cpc[c] = "idle"
    /\ rounds < MaxRounds
    /\ rounds' = rounds + 1
    /\ ckind' = [ckind EXCEPT ![c] = "bw"]
    /\ cforce' = [cforce EXCEPT ![c] = FALSE]
    /\ ret' = [ret EXCEPT ![c] = 0]
    /\ cerr' = [cerr EXCEPT ![c] = "none"]
    /\ seen' = [seen EXCEPT ![c] = 0]
    /\ path' = [path EXCEPT ![c] = ""]
    /\ sawFail' = [sawFail EXCEPT ![c] = staleFail["bw"]]
    /\ seenExp' = [seenExp EXCEPT ![c] = 0]
    /\ cpc' = [cpc EXCEPT ![c] = "rlock"]
    /\ UNCHANGED <<now, cacheVal, expiry, writer, readers, fetchCount, okCount,
                   forcedEver, staleVals, staleFail, calls, advances, expOf>>
    /\ UNCHANGED <<rpc, wake, sleptAt>>
    /\ UNCHANGED <<rayVars, hbVars, srvVars>>

RefreshNext ==
    \/ Advance
    \/ \E r \in Refreshers : RefresherCall(r)
    \/ \E r \in Refreshers : RefresherSleep(r)
    \/ \E r \in Refreshers : RefresherWake(r)
    \/ \E c \in HbCallers : BeatGeoCall(c)
    \/ \E c \in HbCallers : BeatBwCall(c)
    \/ \E c \in RefCallers : GeoRLock(c)
    \/ \E c \in RefCallers : GeoCheck(c)
    \/ \E c \in RefCallers : GeoLock(c)
    \/ \E c \in RefCallers : GeoRecheck(c)
    \/ \E c \in RefCallers : GeoFetch(c)
    \/ \E c \in RefCallers : GeoStoreExpiry(c)
    \/ \E c \in RefCallers : BwRLock(c)
    \/ \E c \in RefCallers : BwCheck(c)
    \/ \E c \in RefCallers : BwLock(c)
    \/ \E c \in RefCallers : BwRecheck(c)
    \/ \E c \in RefCallers : BwFetch(c)
    \/ \E c \in RefCallers : BwStoreExpiry(c)

\* ------------------------------------------- the API server's bandwidth cache
\* api/handlers.go:52: bandwidthCacheDuration
SrvBwTTL == 1440
\* api/server.go:65,68: the updater's sleeps
SrvRetryDelay == 1
SrvBwPeriod == 1440

\* api/handlers.go:38-43: the numeric fields of BandwidthSpeedtest
BwFields == {"dl", "ul", "ping"}

SrvInit ==
    /\ srvAlloc = FALSE
    /\ srvData = [f \in BwFields |-> 0]
    /\ srvTs = [m |-> 0, at |-> 0]
    /\ srvMu = "none"
    /\ srvPending = {}
    /\ srvMeasures = 0
    /\ upc = "loop"
    /\ uerr = "none"
    /\ uwake = 0
    /\ urounds = 0
    /\ spc = "idle"
    /\ got = [ts |-> 0, dl |-> 0, ul |-> 0, ping |-> 0]
    /\ reads = 0

\* api/handlers.go:253: !timestamp.IsZero() && time.Since(timestamp) < 24h
SrvValid == srvTs.at # 0 /\ now - srvTs.at < SrvBwTTL

\* api/server.go:62-63, api/handlers.go:244-247: the updater calls
\* getBandwidth, which allocates the cache on first use
UpdEnter ==
    /\ upc = "loop"
    /\ urounds < MaxRounds
    /\ urounds' = urounds + 1
    /\ srvAlloc' = TRUE
    /\ uerr' = "none"
    /\ upc' = "lock"
    /\ UNCHANGED <<srvData, srvTs, srvMu, srvPending, srvMeasures, uwake, spc,
                   got, reads>>
    /\ UNCHANGED <<rayVars, cacheVars, hbVars, refVars>>

\* api/handlers.go:249: s.bandwidth.mu.Lock()
UpdLock ==
    /\ upc = "lock"
    /\ srvMu = "none"
    /\ srvMu' = "upd"
    /\ upc' = "check"
    /\ UNCHANGED <<srvAlloc, srvData, srvTs, srvPending, srvMeasures, uerr,
                   uwake, urounds, spc, got, reads>>
    /\ UNCHANGED <<rayVars, cacheVars, hbVars, refVars>>

\* api/handlers.go:252-255: a valid cache is returned as it is
UpdCheck ==
    /\ upc = "check"
    /\ IF SrvValid
       THEN /\ srvMu' = "none"
            /\ upc' = "returned"
       ELSE /\ upc' = "measure"
            /\ UNCHANGED srvMu
    /\ UNCHANGED <<srvAlloc, srvData, srvTs, srvPending, srvMeasures, uerr,
                   uwake, urounds, spc, got, reads>>
    /\ UNCHANGED <<rayVars, cacheVars, hbVars, refVars>>

\* api/handlers.go:257-274: the speed test; its three failures return with
\* nothing stored and the mutex released
UpdMeasure ==
    /\ upc = "measure"
    /\ \E outcome \in {"ok", "no_server", "ping_failed", "download_failed"} :
         IF outcome = "ok"
         THEN /\ srvMeasures' = srvMeasures + 1
              /\ srvPending' = BwFields \cup {"ts"}
              /\ upc' = "store"
              /\ UNCHANGED <<uerr, srvMu>>
         ELSE /\ uerr' = outcome
              /\ srvMu' = "none"
              /\ upc' = "returned"
              /\ UNCHANGED <<srvMeasures, srvPending>>
    /\ UNCHANGED <<srvAlloc, srvData, srvTs, uwake, urounds, spc, got, reads>>
    /\ UNCHANGED <<rayVars, cacheVars, hbVars, refVars>>

\* api/handlers.go:276-277: s.bandwidth.data = result (a copy of the struct,
\* field by field) and s.bandwidth.timestamp = time.Now().  getResources
\* reads these without the mutex, so nothing orders the stores for it: a
\* store becomes visible to it at any point, in any order.
UpdStore ==
    /\ upc = "store"
    /\ \E f \in srvPending :
         /\ srvPending' = srvPending \ {f}
         /\ IF f = "ts"
            THEN /\ srvTs' = [m |-> srvMeasures, at |-> now]
                 /\ UNCHANGED srvData
            ELSE /\ srvData' = [srvData EXCEPT ![f] = srvMeasures]
                 /\ UNCHANGED srvTs
    /\ UNCHANGED <<srvAlloc, srvMu, srvMeasures, upc, uerr, uwake, urounds,
                   spc, got, reads>>
    /\ UNCHANGED <<rayVars, cacheVars, hbVars, refVars>>

\* api/handlers.go:279 and the deferred Unlock of 250
UpdReturn ==
    /\ upc = "store"
    /\ srvPending = {}
    /\ srvMu' = "none"
    /\ upc' = "returned"
    /\ UNCHANGED <<srvAlloc, srvData, srvTs, srvPending, srvMeasures, uerr,
                   uwake, urounds, spc, got, reads>>
    /\ UNCHANGED <<rayVars, cacheVars, hbVars, refVars>>

\* api/server.go:63-68: a minute after an error, 24 hours otherwise
UpdSleep ==
    /\ upc = "returned"
    /\ uwake' = now + (IF uerr # "none" THEN SrvRetryDelay ELSE SrvBwPeriod)
    /\ upc' = "sleep"
    /\ UNCHANGED <<srvAlloc, srvData, srvTs, srvMu, srvPending, srvMeasures,
                   uerr, urounds, spc, got, reads>>
    /\ UNCHANGED <<rayVars, cacheVars, hbVars, refVars>>

UpdWake ==
    /\ upc = "sleep"
    /\ now >= uwake
    /\ upc' = "loop"
    /\ UNCHANGED <<srvAlloc, srvData, srvTs, srvMu, srvPending, srvMeasures,
                   uerr, uwake, urounds, spc, got, reads>>
    /\ UNCHANGED <<rayVars, cacheVars, hbVars, refVars>>

\* api/handlers.go:163-172: GET /resources; the figures start as zero
ResBegin ==
    /\ spc = "idle"
    /\ reads < MaxReads
    /\ reads' = reads + 1
    /\ got' = [ts |-> 0, dl |-> 0, ul |-> 0, ping |-> 0]
    /\ spc' = "check"
    /\ UNCHANGED <<srvAlloc, srvData, srvTs, srvMu, srvPending, srvMeasures,
                   upc, uerr, uwake, urounds>>
    /\ UNCHANGED <<rayVars, cacheVars, hbVars, refVars>>

\* api/handlers.go:173: the test of the timestamp, s.bandwidth.mu not held
ResCheck ==
    /\ spc = "check"
    /\ IF srvAlloc /\ SrvValid
       THEN /\ got' = [got EXCEPT !.ts = srvTs.m]
            /\ spc' = "read_dl"
       ELSE /\ spc' = "respond"
            /\ UNCHANGED got
    /\ UNCHANGED <<srvAlloc, srvData, srvTs, srvMu, srvPending, srvMeasures,
                   upc, uerr, uwake, urounds, reads>>
    /\ UNCHANGED <<rayVars, cacheVars, hbVars, refVars>>

\* api/handlers.go:174-176: the three reads of s.bandwidth.data, in order
ResRead ==
    /\ spc \in {"read_dl", "read_ul", "read_ping"}
    /\ got' = [got EXCEPT
                 !.dl = IF spc = "read_dl" THEN srvData["dl"] ELSE @,
                 !.ul = IF spc = "read_ul" THEN srvData["ul"] ELSE @,
                 !.ping = IF spc = "read_ping" THEN srvData["ping"] ELSE @]
    /\ spc' = (IF spc = "read_dl" THEN "read_ul"
               ELSE IF spc = "read_ul" THEN "read_ping" ELSE "respond")
    /\ UNCHANGED <<srvAlloc, srvData, srvTs, srvMu, srvPending, srvMeasures,
                   upc, uerr, uwake, urounds, reads>>
    /\ UNCHANGED <<rayVars, cacheVars, hbVars, refVars>>

\* api/handlers.go:180-200: the response is composed and sent
ResRespond ==
    /\ spc = "respond"
    /\ spc' = "idle"
    /\ UNCHANGED <<srvAlloc, srvData, srvTs, srvMu, srvPending, srvMeasures,
                   upc, uerr, uwake, urounds, got, reads>>
    /\ UNCHANGED <<rayVars, cacheVars, hbVars, refVars>>

SrvNext ==
    \/ Advance
    \/ UpdEnter
    \/ UpdLock
    \/ UpdCheck
    \/ UpdMeasure
    \/ UpdStore
    \/ UpdReturn
    \/ UpdSleep
    \/ UpdWake
    \/ ResBegin
    \/ ResCheck
    \/ ResRead
    \/ ResRespond

\* ------------------------------------------- registration and heartbeat
\* http.NewRequest (part_000:125,412) parses the URL built from ManagerIP
NewRequestOK(ip) == ip = "mgr:8080"

HbInit ==
    /\ registered = FALSE
    /\ managerIP \in ManagerIPs
    /\ hpc = [g \in HbThreads |-> IF g = Hb THEN "wait" ELSE "idle"]
    /\ regReqs = [g \in HbThreads |-> 0]
    /\ hbReqs = 0
    /\ regCallsIn = 0
    /\ herr = [g \in HbThreads |-> <<>>]
    /\ regOutcome = [g \in HbThreads |-> "none"]
    /\ hbOutcome = "none"
    /\ geo = [g \in HbThreads |-> 0]
    /\ bw = [g \in HbThreads |-> 0]
    /\ warned = [g \in HbThreads |-> {}]
    /\ regData = [g \in HbThreads |-> {}]
    /\ everReg = FALSE
    /\ regAtStart = [g \in HbThreads |-> FALSE]
    /\ beats = 0
    /\ regCalls = 0

\* part_000:101-103: the ticker fires and the loop calls SendHeartbeat
HbTick ==
    /\ hpc[Hb] = "wait"
    /\ beats < MaxBeats
    /\ beats' = beats + 1
    /\ hpc' = [hpc EXCEPT ![Hb] = "send"]
    /\ UNCHANGED <<registered, managerIP, regReqs, hbReqs, regCallsIn, herr,
                   regOutcome, everReg, regAtStart, regCalls>>
    /\ UNCHANGED regLocals
    /\ UNCHANGED hbOutcome
    /\ UNCHANGED <<rayVars, cacheVars, refVars, srvVars>>

\* the same step once the model's tick count is used up
HbTickMore ==
    /\ hpc[Hb] = "wait"
    /\ beats = MaxBeats
    /\ hpc' = [hpc EXCEPT ![Hb] = "send"]
    /\ UNCHANGED <<registered, managerIP, regReqs, hbReqs, regCallsIn, herr,
                   regOutcome, everReg, regAtStart, beats, regCalls>>
    /\ UNCHANGED regLocals
    /\ UNCHANGED hbOutcome
    /\ UNCHANGED <<rayVars, cacheVars, refVars, srvVars>>

\* SendHeartbeat registering on every call, whatever the flag says
SendHeartbeatBegin_AlwaysRegister ==
    /\ hpc[Hb] = "send"
    /\ regReqs' = [regReqs EXCEPT ![Hb] = 0]
    /\ hbReqs' = 0
    /\ hbOutcome' = "none"
    /\ regOutcome' = [regOutcome EXCEPT ![Hb] = "none"]
    /\ regAtStart' = [regAtStart EXCEPT ![Hb] = everReg]
    /\ IF managerIP = ""
       THEN /\ herr' = [herr EXCEPT ![Hb] = <<"no_manager_ip">>]
            /\ regCallsIn' = 0
            /\ hpc' = [hpc EXCEPT ![Hb] = "wait"]
       ELSE /\ herr' = [herr EXCEPT ![Hb] = <<>>]
            /\ regCallsIn' = 1
            /\ hpc' = [hpc EXCEPT ![Hb] = "register"]
    /\ UNCHANGED <<registered, managerIP, everReg, beats, regCalls>>
    /\ UNCHANGED regLocals
    /\ UNCHANGED <<rayVars, cacheVars, refVars, srvVars>>

\* part_000:111-121: SendHeartbeat checks the configuration, reads the flag
\* and, when it is false, calls RegisterNode
SendHeartbeatBegin ==
    /\ hpc[Hb] = "send"
    /\ regReqs' = [regReqs EXCEPT ![Hb] = 0]
    /\ hbReqs' = 0
    /\ hbOutcome' = "none"
    /\ regOutcome' = [regOutcome EXCEPT ![Hb] = "none"]
    /\ regAtStart' = [regAtStart EXCEPT ![Hb] = everReg]
    /\ IF managerIP = ""
       THEN /\ herr' = [herr EXCEPT ![Hb] = <<"no_manager_ip">>]
            /\ regCallsIn' = 0
            /\ hpc' = [hpc EXCEPT ![Hb] = "wait"]
       ELSE /\ herr' = [herr EXCEPT ![Hb] = <<>>]
            /\ IF ~registered
               THEN /\ regCallsIn' = 1
                    /\ hpc' = [hpc EXCEPT ![Hb] = "register"]
               ELSE /\ regCallsIn' = 0
                    /\ hpc' = [hpc EXCEPT ![Hb] = "hb_post"]
    /\ UNCHANGED <<registered, managerIP, everReg, beats, regCalls>>
    /\ UNCHANGED regLocals
    /\ UNCHANGED <<rayVars, cacheVars, refVars, srvVars>>

\* some goroutine calls RegisterNode itself (part_000:359)
RegBegin ==
    /\ hpc[Reg] = "idle"
    /\ regCalls < MaxRegCalls
    /\ regCalls' = regCalls + 1
    /\ regReqs' = [regReqs EXCEPT ![Reg] = 0]
    /\ regOutcome' = [regOutcome EXCEPT ![Reg] = "none"]
    /\ herr' = [herr EXCEPT ![Reg] = <<>>]
    /\ regAtStart' = [regAtStart EXCEPT ![Reg] = everReg]
    /\ hpc' = [hpc EXCEPT ![Reg] = "register"]
    /\ UNCHANGED <<registered, managerIP, hbReqs, regCallsIn, everReg, beats>>
    /\ UNCHANGED regLocals
    /\ UNCHANGED hbOutcome
    /\ UNCHANGED <<rayVars, cacheVars, refVars, srvVars>>

\* what RegisterNode's caller returns: SendHeartbeat wraps the error
\* (part_000:118-120), a direct caller gets it as it is
RegErr(g, e) ==
    IF g = Hb /\ e # <<>> THEN <<"not_registered">> \o e ELSE e

\* SendHeartbeat going on to the heartbeat request after a failed registration
RegNextPc_IgnoreError(g, e) ==
    IF g = Reg THEN "idle" ELSE "hb_post"

\* part_000:118-123: where the caller of RegisterNode goes on
RegNextPc(g, e) ==
    IF g = Reg THEN "idle"
    ELSE IF e = <<>> THEN "hb_post"
    ELSE "wait"

\* part_000:145-198, 201-252: what GetGeoLocation and GetBandwidth hand
\* their caller: the value with a nil error, or nil with an error
LookupResults == {[val |-> 1, err |-> FALSE], [val |-> 0, err |-> TRUE]}

\* a payload that carries the optional fields only when both are there
RegData_OnlyWithBoth(geoVal, bwVal) ==
    {"hostname", "resources", "timestamp"}
        \cup {k \in {"geo", "bandwidth"} : geoVal # 0 /\ bwVal # 0}

\* part_000:390-402: the keys of regData
RegData(geoVal, bwVal) ==
    {"hostname", "resources", "timestamp"}
        \cup {k \in {"geo"} : geoVal # 0}
        \cup {k \in {"bandwidth"} : bwVal # 0}

\* part_000:441: RegisterNode returns and its locals are gone
RegLocalsEnd(g) ==
    /\ geo' = [geo EXCEPT ![g] = 0]
    /\ bw' = [bw EXCEPT ![g] = 0]
    /\ warned' = [warned EXCEPT ![g] = {}]
    /\ regData' = [regData EXCEPT ![g] = {}]

\* part_000:359-416: RegisterNode up to the request.  GetResources(true)
\* returns no error (part_000:255-351); the geo and bandwidth lookups are best
\* effort (376-387): an error is logged and the call goes on.
RegisterPrepare(g) ==
    /\ hpc[g] = "register"
    /\ IF managerIP = ""
       THEN /\ herr' = [herr EXCEPT ![g] = RegErr(g, <<"no_manager_ip">>)]
            /\ regOutcome' = [regOutcome EXCEPT ![g] = "not_sent"]
            /\ hpc' = [hpc EXCEPT ![g] = RegNextPc(g, <<"no_manager_ip">>)]
            /\ UNCHANGED regLocals
       ELSE IF ~NewRequestOK(managerIP)
       THEN /\ herr' = [herr EXCEPT ![g] = RegErr(g, <<"create_request">>)]
            /\ regOutcome' = [regOutcome EXCEPT ![g] = "not_sent"]
            /\ hpc' = [hpc EXCEPT ![g] = RegNextPc(g, <<"create_request">>)]
            /\ UNCHANGED regLocals
       ELSE /\ \E gl \in LookupResults, bl \in LookupResults :
                 /\ geo' = [geo EXCEPT ![g] = gl.val]
                 /\ bw' = [bw EXCEPT ![g] = bl.val]
                 /\ warned' = [warned EXCEPT ![g] =
                                 {k \in {"geo"} : gl.err}
                                     \cup {k \in {"bandwidth"} : bl.err}]
                 /\ regData' = [regData EXCEPT ![g] = RegData(gl.val, bl.val)]
            /\ hpc' = [hpc EXCEPT ![g] = "reg_post"]
            /\ UNCHANGED <<herr, regOutcome>>
    /\ UNCHANGED <<registered, managerIP, regReqs, hbReqs, regCallsIn,
                   everReg, regAtStart, beats, regCalls>>
    /\ UNCHANGED hbOutcome
    /\ UNCHANGED <<rayVars, cacheVars, refVars, srvVars>>

\* RegisterNode setting the flag as soon as the status is 200, before the
\* body is parsed
RegisterPost_MarkBeforeParse(g) ==
    /\ hpc[g] = "reg_post"
    /\ regReqs' = [regReqs EXCEPT ![g] = @ + 1]
    /\ \E outcome \in {"transport", "bad_status", "bad_body", "ok"} :
         LET e == IF outcome = "ok" THEN <<>> ELSE <<outcome>> IN
         /\ regOutcome' = [regOutcome EXCEPT ![g] = outcome]
         /\ registered' = (registered \/ outcome \in {"ok", "bad_body"})
         /\ everReg' = (everReg \/ outcome \in {"ok", "bad_body"})
         /\ herr' = [herr EXCEPT ![g] = RegErr(g, e)]
         /\ hpc' = [hpc EXCEPT ![g] = RegNextPc(g, e)]
    /\ RegLocalsEnd(g)
    /\ UNCHANGED <<managerIP, hbReqs, regCallsIn, regAtStart, beats, regCalls>>
    /\ UNCHANGED hbOutcome
    /\ UNCHANGED <<rayVars, cacheVars, refVars, srvVars>>

\* RegisterNode setting the flag on any answer of the manager, whatever its
\* status
RegisterPost_MarkOnAnyStatus(g) ==
    /\ hpc[g] = "reg_post"
    /\ regReqs' = [regReqs EXCEPT ![g] = @ + 1]
    /\ \E outcome \in {"transport", "bad_status", "bad_body", "ok"} :
         LET e == IF outcome = "ok" THEN <<>> ELSE <<outcome>> IN
         /\ regOutcome' = [regOutcome EXCEPT ![g] = outcome]
         /\ registered' = (registered \/ outcome \in {"ok", "bad_status"})
         /\ everReg' = (everReg \/ outcome \in {"ok", "bad_status"})
         /\ herr' = [herr EXCEPT ![g] = RegErr(g, e)]
         /\ hpc' = [hpc EXCEPT ![g] = RegNextPc(g, e)]
    /\ RegLocalsEnd(g)
    /\ UNCHANGED <<managerIP, hbReqs, regCallsIn, regAtStart, beats, regCalls>>
    /\ UNCHANGED hbOutcome
    /\ UNCHANGED <<rayVars, cacheVars, refVars, srvVars>>

\* part_000:418-440: the registration request and its answer; only a 200
\* with a parsable body sets the flag
RegisterPost(g) ==
    /\ hpc[g] = "reg_post"
    /\ regReqs' = [regReqs EXCEPT ![g] = @ + 1]
    /\ \E outcome \in {"transport", "bad_status", "bad_body", "ok"} :
         LET e == IF outcome = "ok" THEN <<>> ELSE <<outcome>> IN
         /\ regOutcome' = [regOutcome EXCEPT ![g] = outcome]
         /\ registered' = (registered \/ outcome = "ok")
         /\ everReg' = (everReg \/ outcome = "ok")
         /\ herr' = [herr EXCEPT ![g] = RegErr(g, e)]
         /\ hpc' = [hpc EXCEPT ![g] = RegNextPc(g, e)]
    /\ RegLocalsEnd(g)
    /\ UNCHANGED <<managerIP, hbReqs, regCallsIn, regAtStart, beats, regCalls>>
    /\ UNCHANGED hbOutcome
    /\ UNCHANGED <<rayVars, cacheVars, refVars, srvVars>>

\* SendHeartbeat sending the request a second time when the first one failed
HeartbeatPost_RetryOnError ==
    /\ hpc[Hb] = "hb_post"
    /\ IF ~NewRequestOK(managerIP)
       THEN /\ herr' = [herr EXCEPT ![Hb] = <<"create_request">>]
            /\ hbOutcome' = "not_sent"
            /\ UNCHANGED hbReqs
       ELSE /\ \E first \in {"transport", "bad_status", "ok"},
                  outcome \in {"transport", "bad_status", "ok"} :
                 /\ hbReqs' = hbReqs + (IF first = "ok" THEN 1 ELSE 2)
                 /\ first = "ok" => outcome = "ok"
                 /\ hbOutcome' = outcome
                 /\ herr' = [herr EXCEPT ![Hb] =
                               IF outcome = "ok" THEN <<>> ELSE <<outcome>>]
    /\ hpc' = [hpc EXCEPT ![Hb] = "wait"]
    /\ UNCHANGED <<registered, managerIP, regReqs, regCallsIn, regOutcome,
                   everReg, regAtStart, beats, regCalls>>
    /\ UNCHANGED regLocals
    /\ UNCHANGED <<rayVars, cacheVars, refVars, srvVars>>

\* part_000:123-141: the heartbeat request and its answer
HeartbeatPost ==
    /\ hpc[Hb] = "hb_post"
    /\ IF ~NewRequestOK(managerIP)
       THEN /\ herr' = [herr EXCEPT ![Hb] = <<"create_request">>]
            /\ hbOutcome' = "not_sent"
            /\ UNCHANGED hbReqs
       ELSE /\ hbReqs' = hbReqs + 1
            /\ \E outcome \in {"transport", "bad_status", "ok"} :
                 /\ hbOutcome' = outcome
                 /\ herr' = [herr EXCEPT ![Hb] =
                               IF outcome = "ok" THEN <<>> ELSE <<outcome>>]
    /\ hpc' = [hpc EXCEPT ![Hb] = "wait"]
    /\ UNCHANGED <<registered, managerIP, regReqs, regCallsIn, regOutcome,
                   everReg, regAtStart, beats, regCalls>>
    /\ UNCHANGED regLocals
    /\ UNCHANGED <<rayVars, cacheVars, refVars, srvVars>>

HbNext ==
    \/ HbTick
    \/ SendHeartbeatBegin
    \/ RegBegin
    \/ \E g \in HbThreads : RegisterPrepare(g)
    \/ \E g \in HbThreads : RegisterPost(g)
    \/ HeartbeatPost

\* ---------------------------------------------------------- specifications
vars == <<rayVars, cacheVars, hbVars, refVars, srvVars>>

\* the reconciler and the API handlers; the caches stay as constructed
InitRay == RayInit /\ CacheInit /\ HbInit /\ RefInit /\ SrvInit /\ managerIP = "mgr:8080"

SpecRay == InitRay /\ [][RayNext]_vars

\* the callers of the caches; the reconciler is not started
InitCache == RayInit /\ ~running /\ CacheInit /\ HbInit /\ RefInit /\ SrvInit /\ managerIP = "mgr:8080"

SpecCache == InitCache /\ [][CacheNext]_vars

\* the heartbeat loop and a direct caller of RegisterNode
InitHb == RayInit /\ ~running /\ CacheInit /\ HbInit /\ RefInit /\ SrvInit

SpecHb == InitHb /\ [][HbNext]_vars

\* the refreshers and the heartbeat's cache calls
InitRefresh ==
    RayInit /\ ~running /\ CacheInit /\ HbInit /\ RefInit /\ SrvInit
    /\ managerIP = "mgr:8080"

SpecRefresh == InitRefresh /\ [][RefreshNext]_vars

\* the API server's updater and a GET /resources handler
InitSrv ==
    RayInit /\ ~running /\ CacheInit /\ HbInit /\ RefInit /\ SrvInit
    /\ managerIP = "mgr:8080"

SpecSrv == InitSrv /\ [][SrvNext]_vars

\* the two loops on their own, each goroutine scheduled fairly and its ticker
\* firing again and again
RecNext ==
    \/ RecGo
    \/ TickerFire
    \/ TickerFireMore
    \/ LoopGetRole
    \/ SetupGetRole
    \/ NoneIsRunning
    \/ ClearStep
    \/ SetupIsRunning
    \/ RecReturn
    \/ StopNodeCheck(Rec)
    \/ StopNodeExec(Rec)
    \/ StartHeadCheck(Rec)
    \/ StartHeadExec(Rec)
    \/ StartWorkerCheck(Rec)
    \/ StartWorkerExec(Rec)

HbLoopNext ==
    \/ HbTick
    \/ HbTickMore
    \/ SendHeartbeatBegin
    \/ RegisterPrepare(Hb)
    \/ RegisterPost(Hb)
    \/ HeartbeatPost

LiveNext ==
    \/ RecGo
    \/ TickerFire
    \/ TickerFireMore
    \/ LoopGetRole
    \/ SetupGetRole
    \/ NoneIsRunning
    \/ ClearStep
    \/ SetupIsRunning
    \/ RecReturn
    \/ StopNodeCheck(Rec)
    \/ StopNodeExec(Rec)
    \/ StartHeadCheck(Rec)
    \/ StartHeadExec(Rec)
    \/ StartWorkerCheck(Rec)
    \/ StartWorkerExec(Rec)
    \/ HbTick
    \/ HbTickMore
    \/ SendHeartbeatBegin
    \/ RegisterPrepare(Hb)
    \/ RegisterPost(Hb)
    \/ HeartbeatPost

\* the reconciler goroutine alone: no API request intervenes
SpecRec == InitRay /\ [][RecNext]_vars /\ WF_vars(RecNext)

InitLive == RayInit /\ CacheInit /\ HbInit /\ RefInit /\ SrvInit /\ managerIP = "mgr:8080"

SpecLive ==
    InitLive /\ [][LiveNext]_vars /\ WF_vars(RecNext) /\ WF_vars(HbLoopNext)

\* ------------------------------------------------- claims: the reconciler
\* SetupNodeByRole has returned; its locals describe the tick just ended
TickDone == pc[Rec] \in {"ret", "wait"} /\ resp.kind # "none"

CountOf(seq, S) == Cardinality({i \in 1..Len(seq) : seq[i] \in S})
StartCmds == {"start_head", "start_worker"}
ClearCmds == {"clear", "clear_failed"}

\* the tick's first IsRunning() call (service.go:167 or 185) returned b
FirstObs(b) == Len(obs[Rec]) >= 1 /\ obs[Rec][1] = b

\* C1 (as claimed): across all interleavings of reconciler ticks and API
\* start calls, no start command is issued to the binary while the process
\* is running.
C1_NoStartWhileRunning == ~startWhileRunning

\* C2: a tick whose assignment is Head or Worker and whose IsRunning() call
\* returned true issues no start and no stop command, returns the "already
\* running" error and an empty result.
C2_RunningTickRefuses ==
    (TickDone /\ roleInfo[Rec].Role \in {RoleHead, RoleWorker} /\ FirstObs(TRUE))
        => /\ cmds[Rec] = <<>>
           /\ err[Rec] = "already_running"
           /\ result[Rec] = <<>>

C2_Witness ==
    /\ TickDone
    /\ roleInfo[Rec].Role = RoleHead
    /\ FirstObs(TRUE)
    /\ err[Rec] = "already_running"
    /\ running /\ runRole = RoleHead

\* C3: a tick whose assignment is None and that found the process running
\* calls StopNode; while the process is still running there exactly one stop
\* command is issued, and once that command succeeded exactly one
\* ClearRayData call follows it and the tick returns "stopped" with no error.
C3_NoneRunningStopsAndClears ==
    (TickDone /\ roleInfo[Rec].Role = RoleNone /\ FirstObs(TRUE))
        => /\ Len(obs[Rec]) = 2
           /\ CountOf(cmds[Rec], StartCmds) = 0
           /\ obs[Rec][2] => (CountOf(cmds[Rec], {"stop"}) = 1 /\ cmds[Rec][1] = "stop")
           /\ ~obs[Rec][2] => (cmds[Rec] = <<>> /\ err[Rec] = "not_running")
           /\ (obs[Rec][2] /\ err[Rec] # "stop_failed")
                => /\ Len(cmds[Rec]) = 2
                   /\ cmds[Rec][2] \in ClearCmds
                   /\ result[Rec] = <<"stopped">>
                   /\ err[Rec] = "none"

C3_Witness ==
    /\ TickDone
    /\ roleInfo[Rec].Role = RoleNone
    /\ obs[Rec] = <<TRUE, TRUE>>
    /\ cmds[Rec] = <<"stop", "clear">>
    /\ result[Rec] = <<"stopped">>
    /\ ~running

\* C4: when the manager is unreachable or answers with a non-success status,
\* GetRole yields role head with no error, and a tick that finds the process
\* not running issues exactly one start-as-head command.
C4_FallbackStartsHead ==
    (TickDone /\ resp.kind \in {"unreachable", "bad_status"})
        => /\ roleInfo[Rec] = [Role |-> RoleHead, HeadIP |-> <<>>]
           /\ err[Rec] \notin {"decode", "invalid_role", "no_head_ip"}
           /\ FirstObs(FALSE) => Len(obs[Rec]) = 2
           /\ obs[Rec] = <<FALSE, FALSE>> => cmds[Rec] = <<"start_head">>

C4_Witness ==
    /\ TickDone
    /\ resp.kind = "unreachable"
    /\ obs[Rec] = <<FALSE, FALSE>>
    /\ cmds[Rec] = <<"start_head">>
    /\ result[Rec] = HeadId
    /\ running /\ runRole = RoleHead

\* C5 (as claimed): a success status with an undecodable body is treated as
\* role head for that tick, as an unreachable manager is.
C5_MalformedIsHead ==
    (TickDone /\ resp.kind = "malformed")
        => /\ roleInfo[Rec] = [Role |-> RoleHead, HeadIP |-> <<>>]
           /\ err[Rec] # "decode"

\* C5 (amended): a success status with an undecodable body makes GetRole
\* return an error; the tick returns that error, makes no IsRunning() call and
\* issues no command.
C5_MalformedIsError ==
    (TickDone /\ resp.kind = "malformed")
        => /\ err[Rec] = "decode"
           /\ roleInfo[Rec] = NoRole
           /\ obs[Rec] = <<>>
           /\ cmds[Rec] = <<>>
           /\ result[Rec] = <<>>

C5_Witness ==
    /\ TickDone
    /\ resp.kind = "malformed"
    /\ err[Rec] = "decode"
    /\ ~running

\* C6: a tick whose assignment is Worker with an empty head address issues no
\* start command and no stop command and returns a validation error.
C6_WorkerWithoutHeadRejected ==
    (TickDone /\ resp.kind = "ok" /\ resp.Role = RoleWorker /\ resp.HeadIP = <<>>)
        => /\ cmds[Rec] = <<>>
           /\ err[Rec] \in {"no_head_ip", "cannot_start_worker"}
           /\ result[Rec] = <<>>

C6_Witness ==
    /\ TickDone
    /\ resp.kind = "ok" /\ resp.Role = RoleWorker /\ resp.HeadIP = <<>>
    /\ err[Rec] = "no_head_ip"
    /\ cmds[Rec] = <<>>


\* ------------------------------------------------------ claims: the caches
\* caller c has completed a call; its locals describe that call
Done(c) == cpc[c] = "idle" /\ path[c] # ""

\* C7: while no forced call was made and no check found the stored value
\* expired, the cache is fetched successfully at most once, no fetch is
\* invoked after that success (the counter stays at the first value's
\* number), and every call that returned without error returned that value.
C7_FreshValueNotRefetched ==
    \A k \in Caches :
        (~forcedEver[k] /\ staleVals[k] = {})
            => /\ okCount[k] <= 1
               /\ okCount[k] = 1 => fetchCount[k] = cacheVal[k]
               /\ \A c \in Callers :
                    (Done(c) /\ ckind[c] = k /\ cerr[c] = "none")
                        => (ret[c] # 0 /\ ret[c] = cacheVal[k])

C7_Witness ==
    \E c1, c2 \in Callers :
        /\ c1 # c2 /\ Done(c1) /\ Done(c2)
        /\ ckind[c1] = "geo" /\ ckind[c2] = "geo"
        /\ path[c1] = "fast" /\ path[c2] = "recheck"
        /\ ret[c1] = 1 /\ ret[c2] = 1
        /\ fetchCount["geo"] = 1 /\ okCount["geo"] = 1
        /\ staleVals["geo"] = {}
        /\ now > 1

\* C8: with no forced call on the cache, two non-forced calls that both
\* missed at their first check on the same stored value (nil or expired) and
\* returned without error before the refreshed value was itself found
\* expired returned the same value, and at most one of them fetched.
C8_OneFetchPerExpiry ==
    \A k \in Caches : \A c1, c2 \in Callers :
        ( /\ ~forcedEver[k]
          /\ Done(c1) /\ Done(c2)
          /\ ckind[c1] = k /\ ckind[c2] = k
          /\ cerr[c1] = "none" /\ cerr[c2] = "none"
          /\ path[c1] # "fast" /\ path[c2] # "fast"
          /\ seen[c1] = seen[c2]
          /\ \A v \in staleVals[k] : v <= seen[c1] )
            => /\ ret[c1] = ret[c2]
               /\ c1 # c2 => ~(path[c1] = "fetch" /\ path[c2] = "fetch")

C8_Witness ==
    \E c1, c2 \in Callers :
        /\ c1 # c2 /\ Done(c1) /\ Done(c2)
        /\ ckind[c1] = "geo" /\ ckind[c2] = "geo"
        /\ seen[c1] = 1 /\ seen[c2] = 1
        /\ staleVals["geo"] = {1}
        /\ path[c1] = "fetch" /\ path[c2] = "recheck"
        /\ ret[c1] = 2 /\ ret[c2] = 2
        /\ okCount["geo"] = 2

\* C9 (as claimed): two GetBandwidth(true) calls that overlap (each made its
\* first check before the other stored its value) and returned without error
\* returned the same value: the measurement ran once for both.
C9_ForcedCallersShareOneFetch ==
    \A c1, c2 \in Callers :
        ( /\ c1 # c2 /\ Done(c1) /\ Done(c2)
          /\ ckind[c1] = "bw" /\ ckind[c2] = "bw"
          /\ cforce[c1] /\ cforce[c2]
          /\ cerr[c1] = "none" /\ cerr[c2] = "none"
          /\ seen[c1] < ret[c2] /\ seen[c2] < ret[c1] )
            => ret[c1] = ret[c2]

\* C9 (amended): every GetBandwidth(true) call invokes the measurement itself,
\* also when another caller refreshed the value while it waited for the write
\* lock; a call that returned without error returned its own, newer value,
\* so two forced calls never return the same measurement.
C9_ForcedAlwaysMeasures ==
    /\ \A c \in Callers :
         (Done(c) /\ ckind[c] = "bw" /\ cforce[c])
             => /\ path[c] = "fetch"
                /\ cerr[c] = "none" => ret[c] > seen[c]
    /\ \A c1, c2 \in Callers :
         ( /\ c1 # c2 /\ Done(c1) /\ Done(c2)
           /\ ckind[c1] = "bw" /\ ckind[c2] = "bw"
           /\ cforce[c1] /\ cforce[c2]
           /\ cerr[c1] = "none" /\ cerr[c2] = "none" )
             => ret[c1] # ret[c2]

C9_Witness ==
    \E c1, c2 \in Callers :
        /\ c1 # c2 /\ Done(c1) /\ Done(c2)
        /\ ckind[c1] = "bw" /\ ckind[c2] = "bw"
        /\ cforce[c1] /\ cforce[c2]
        /\ seen[c1] = 0 /\ seen[c2] = 0
        /\ ret[c1] = 1 /\ ret[c2] = 2
        /\ fetchCount["bw"] = 2
        /\ now < expiry["bw"]

FetchFails(k) ==
    \E c \in Callers :
        /\ cpc[c] = "fetch" /\ ckind[c] = k
        /\ cpc'[c] = "idle" /\ cerr'[c] # "none"

\* the goroutines inside the fetch of cache k
Fetching(k) == {c \in Callers : cpc[c] = "fetch" /\ ckind[c] = k}

\* C11: a fetch that fails leaves the stored value and its expiry as they
\* were, and no step sets a non-nil stored value back to nil.
C11_FailedFetchKeepsValue ==
    [][\A k \in Caches :
          /\ FetchFails(k)
                => (cacheVal'[k] = cacheVal[k] /\ expiry'[k] = expiry[k])
          /\ cacheVal[k] # 0 => cacheVal'[k] # 0]_vars

C11_Witness ==
    \E c \in Callers :
        /\ Done(c) /\ ckind[c] = "bw" /\ cforce[c]
        /\ cerr[c] = "no_servers" /\ seen[c] = 1
        /\ staleFail["bw"]
        /\ cacheVal["bw"] = 1 /\ expiry["bw"] = 1 + BwTTL
        /\ fetchCount["bw"] = 2

\* C12: for each cache at most one fetch is in flight at any time, and it is
\* the write-lock holder's, for any mix of forced and non-forced callers.
C12_OneFetchInFlight ==
    \A k \in Caches :
        /\ Cardinality(Fetching(k)) <= 1
        /\ \A c \in Fetching(k) : writer[k] = c

C12_Witness ==
    \E c1, c2 \in Callers :
        /\ ckind[c1] = "bw" /\ ckind[c2] = "bw"
        /\ cforce[c1] /\ ~cforce[c2]
        /\ cpc[c1] = "fetch" /\ cpc[c2] = "wlock"
        /\ cacheVal["bw"] # 0

\* ------------------------------------- claims: registration and heartbeat
\* the heartbeat goroutine is inside a SendHeartbeat call or back from one
InCall == beats >= 1 /\ hpc[Hb] # "send"

\* the heartbeat goroutine's SendHeartbeat call has returned
HbReturned == beats >= 1 /\ hpc[Hb] = "wait"

\* the error RegisterNode returned in the heartbeat goroutine's call
RegFailure ==
    IF regOutcome[Hb] = "not_sent" THEN <<"create_request">> ELSE <<regOutcome[Hb]>>

\* C13: a SendHeartbeat call made while registered is false calls RegisterNode
\* once, which sends at most one registration request; a heartbeat request is
\* sent only after exactly one registration request that succeeded; when the
\* registration fails no heartbeat request is sent and the call returns an
\* error wrapping the registration error.
C13_RegistersBeforeHeartbeat ==
    (InCall /\ managerIP # "" /\ ~regAtStart[Hb])
        => /\ regCallsIn = 1
           /\ regReqs[Hb] <= 1
           /\ hbReqs <= 1
           /\ (hpc[Hb] = "hb_post" \/ hbReqs >= 1)
                => (regReqs[Hb] = 1 /\ regOutcome[Hb] = "ok")
           /\ (HbReturned /\ regOutcome[Hb] # "ok")
                => /\ hbReqs = 0
                   /\ herr[Hb] = <<"not_registered">> \o RegFailure

C13_Witness ==
    /\ HbReturned
    /\ ~regAtStart[Hb]
    /\ regReqs[Hb] = 1 /\ regOutcome[Hb] = "bad_status"
    /\ hbReqs = 0
    /\ herr[Hb] = <<"not_registered", "bad_status">>
    /\ ~registered

\* C14: registered turns true only in the step in which a RegisterNode call's
\* request ends with a success status and a parsable body, and no step turns
\* it back to false.
C14_RegisteredOnlyBySuccess ==
    [][/\ registered => registered'
       /\ (~registered /\ registered')
            => \E g \in HbThreads :
                 /\ hpc[g] = "reg_post" /\ hpc'[g] # "reg_post"
                 /\ regOutcome'[g] = "ok"]_vars

C14_Witness ==
    /\ registered
    /\ regAtStart[Reg] /\ hpc[Reg] = "idle" /\ regOutcome[Reg] = "bad_body"
    /\ regAtStart[Hb] /\ HbReturned /\ herr[Hb] = <<"transport">>

\* C15: a SendHeartbeat call that begins once registered has been true makes
\* no RegisterNode call and sends no registration request, whatever the
\* outcome of its heartbeat request and of the earlier ones.
C15_NoReRegistration ==
    (InCall /\ regAtStart[Hb])
        => /\ regCallsIn = 0
           /\ regReqs[Hb] = 0
           /\ hpc[Hb] \notin {"register", "reg_post"}

C15_Witness ==
    /\ HbReturned /\ beats = 3
    /\ regAtStart[Hb]
    /\ regReqs[Hb] = 0 /\ hbReqs = 1
    /\ herr[Hb] = <<"bad_status">>

\* ---------------------------------------- claims: the reconciliation loop
\* the reconciler goroutine takes this step
RecStep == pc'[Rec] # pc[Rec]

\* positions of SetupNodeByRole after it consumed a Head or Worker assignment
StartPath == {"isrunning", "starthead_isrunning", "starthead_exec",
              "startworker_isrunning", "startworker_exec"}

\* every position of the reconciler goroutine
RecPcs == {"go", "getrole", "none_isrunning", "stop_isrunning", "stop_exec",
           "clear", "ret", "wait", "loop_getrole"} \cup StartPath

\* C16 (as claimed): every reconciliation tick, the periodic ones included,
\* sends exactly one role query to the manager.
C16_OneQueryPerTick ==
    /\ roleQueries <= 1
    /\ (ticks >= 1 /\ pc[Rec] \in {"ret", "wait"}) => roleQueries = 1

\* C17 (as claimed): the reconciler issues a stop command only in a tick whose
\* assignment is None, and in a tick whose assignment is Head or Worker no
\* step of the reconciler issues a command to, stops or changes the role of a
\* process that is running.
C17_StopOnlyOnNone ==
    [][RecStep =>
        /\ (Len(cmds'[Rec]) > Len(cmds[Rec])
              /\ cmds'[Rec][Len(cmds'[Rec])] = "stop")
             => roleInfo[Rec].Role = RoleNone
        /\ (running /\ pc[Rec] \in StartPath)
             => /\ running' /\ runRole' = runRole /\ runAddr' = runAddr
                /\ cmds'[Rec] = cmds[Rec]]_vars

\* C20: the goroutine's first step is the first SetupNodeByRole call, before
\* any wait on the ticker; the goroutine never leaves the loop, and whenever
\* it waits - also after a first call that returned an error - the next
\* periodic tick can start.
C20_FirstTickImmediate ==
    /\ pc[Rec] \in RecPcs
    /\ (pc[Rec] = "go") <=> (ticks = 0)
    /\ ticks = 1 => (pc[Rec] # "loop_getrole" /\ roleQueries <= 1)
    /\ pc[Rec] = "wait" => (ticks >= 1 /\ resp.kind # "none")
    /\ (pc[Rec] = "wait" /\ ticks < MaxTicks) => ENABLED TickerFire

C20_Witness ==
    /\ ticks = 2 /\ pc[Rec] = "loop_getrole"
    /\ resp.kind = "malformed" /\ err[Rec] = "decode"
    /\ cmds[Rec] = <<>>
    /\ apiCalls = 0

\* the assignments the manager can keep returning
Assignments ==
    {r \in Responses :
        /\ r.kind = "ok"
        /\ r.Role \in {RoleHead, RoleWorker, RoleNone}
        /\ r.Role = RoleWorker => r.HeadIP # <<>>}

\* a step in which, if the reconciler takes it, the manager answers R and the
\* external command succeeds
SteadyStep(R) ==
    RecStep =>
        /\ pc[Rec] = "loop_getrole"
             => /\ pc'[Rec] = "getrole"
                /\ currentRole' = [Role |-> R.Role, HeadIP |-> R.HeadIP]
        /\ pc[Rec] = "getrole" => resp' = R
        /\ pc[Rec] \in {"stop_exec", "starthead_exec", "startworker_exec"}
             => err'[Rec] = "none"
        /\ pc[Rec] = "clear" => cmds'[Rec] = Append(cmds[Rec], "clear")

\* the local process is in the state assignment R asks for
Matches(R) ==
    IF R.Role = RoleNone
    THEN ~running
    ELSE /\ running
         /\ runRole = R.Role
         /\ R.Role = RoleWorker => runAddr = R.HeadIP

\* C18 (as claimed): if from some point on the manager keeps returning the
\* same assignment R and every command succeeds, the process eventually
\* reaches and stays in the state matching R.
C18_ConvergesToAssignment ==
    \A R \in Assignments :
        (<>[][SteadyStep(R)]_vars) => <>[]Matches(R)

\* C18 (amended): under the same premise the process eventually stays not
\* running for None and running for Head or Worker; the reconciler gives a
\* process it starts the role and the head address of the assignment, and
\* never changes the role or the address of a process that is running.
C18_ConvergesUnlessRunning ==
    /\ \A R \in Assignments :
         (<>[][SteadyStep(R)]_vars)
             => <>[](IF R.Role = RoleNone THEN ~running ELSE running)
    /\ [][/\ (running /\ running')
               => (runRole' = runRole /\ runAddr' = runAddr)
          /\ (~running /\ running')
               => /\ runRole' = roleInfo[Rec].Role
                  /\ runAddr' = (IF runRole' = RoleWorker
                                 THEN roleInfo[Rec].HeadIP ELSE <<>>)]_vars

C18_Witness ==
    /\ ticks >= 2 /\ TickDone
    /\ running /\ runRole = RoleWorker /\ runAddr = <<"a", ".", "b">>
    /\ resp.kind = "ok" /\ resp.Role = RoleHead
    /\ roleInfo[Rec].Role = RoleHead
    /\ obs[Rec] = <<TRUE>> /\ err[Rec] = "already_running"

\* C19: whatever error a tick or a heartbeat returned, the loop goes on: the
\* reconciler starts a periodic tick again and again, and so does the
\* heartbeat loop with its SendHeartbeat calls.
C19_LoopsSurviveFailures ==
    /\ []<>(pc[Rec] = "loop_getrole")
    /\ []<>(hpc[Hb] = "send")

C19_Witness ==
    /\ ticks >= 2 /\ pc[Rec] = "loop_getrole"
    /\ err[Rec] = "start_failed"
    /\ beats >= 2 /\ hpc[Hb] = "send"
    /\ herr[Hb] = <<"transport">>

C27_ClearFailureStillStopped ==
    (TickDone /\ roleInfo[Rec].Role = RoleNone /\ cmds[Rec] # <<>>)
        => /\ cmds[Rec][1] = "stop"
           /\ err[Rec] \in {"none", "stop_failed"}
           /\ err[Rec] = "stop_failed"
                => (cmds[Rec] = <<"stop">> /\ result[Rec] = <<>>)
           /\ Len(cmds[Rec]) >= 2
                => /\ Len(cmds[Rec]) = 2
                   /\ cmds[Rec][2] \in ClearCmds
                   /\ result[Rec] = <<"stopped">>
                   /\ err[Rec] = "none"
           /\ err[Rec] = "none" => Len(cmds[Rec]) = 2

C27_Witness ==
    /\ TickDone
    /\ roleInfo[Rec].Role = RoleNone
    /\ cmds[Rec] = <<"stop", "clear_failed">>
    /\ result[Rec] = <<"stopped">>
    /\ err[Rec] = "none"

\* C28: a None tick whose IsRunning() call returned false returns "idle"
\* with no error, makes no further IsRunning() call and runs no command.
C28_NoneNotRunningIsIdle ==
    (TickDone /\ roleInfo[Rec].Role = RoleNone /\ FirstObs(FALSE))
        => /\ result[Rec] = <<"idle">>
           /\ err[Rec] = "none"
           /\ cmds[Rec] = <<>>
           /\ args[Rec] = <<>>
           /\ obs[Rec] = <<FALSE>>

C28_Witness ==
    /\ TickDone
    /\ roleInfo[Rec].Role = RoleNone
    /\ obs[Rec] = <<FALSE>>
    /\ result[Rec] = <<"idle">>
    /\ ~running

\* C29: a tick that ran a start command ran the one of its assignment, and
\* only that command: for head, `start --head --port=6379
\* --dashboard-host=0.0.0.0` with the result "head-6379"; for worker with head
\* address A, `start --address A:6379` with the result "worker-" followed by
\* A with its dots replaced by dashes.  A tick whose two IsRunning() calls
\* returned false did run the command.
C29_StartMatchesAssignment ==
    TickDone =>
        LET R == roleInfo[Rec] IN
        /\ CountOf(cmds[Rec], {"start_head"}) >= 1
             => /\ R.Role = RoleHead
                /\ cmds[Rec] = <<"start_head">>
                /\ args[Rec] = <<"start", "--head", <<"--port=", "6379">>,
                                 "--dashboard-host=0.0.0.0">>
                /\ err[Rec] = "none" => result[Rec] = <<"head-", "6379">>
        /\ CountOf(cmds[Rec], {"start_worker"}) >= 1
             => /\ R.Role = RoleWorker
                /\ R.HeadIP = <<"a", ".", "b">>
                /\ cmds[Rec] = <<"start_worker">>
                /\ args[Rec] = <<"start", "--address",
                                 <<"a", ".", "b", ":", "6379">>>>
                /\ err[Rec] = "none"
                     => result[Rec] = <<"worker-", "a", "-", "b">>
        /\ (R.Role = RoleHead /\ obs[Rec] = <<FALSE, FALSE>>)
             => cmds[Rec] = <<"start_head">>
        /\ (R.Role = RoleWorker /\ obs[Rec] = <<FALSE, FALSE>>)
             => cmds[Rec] = <<"start_worker">>

C29_Witness ==
    /\ TickDone
    /\ roleInfo[Rec] = [Role |-> RoleWorker, HeadIP |-> <<"a", ".", "b">>]
    /\ obs[Rec] = <<FALSE, FALSE>>
    /\ cmds[Rec] = <<"start_worker">>
    /\ result[Rec] = <<"worker-", "a", "-", "b">>
    /\ running /\ runRole = RoleWorker

\* a request of the API that called the controller has been answered
Answered(p) == pc[p] = "idle" /\ httpStatus[p] \notin {0, 400}

\* C30 (as claimed): StopNode called while the process is not running returns
\* the "not running" error and runs no command, answered with 412; StartHead
\* and StartWorker called while it is running return the "already running"
\* error and run no command, answered with 409; every other failure is
\* answered with 500.
C30_OtherFailuresAre500 ==
    \A p \in ApiProcs :
        Answered(p)
            => /\ (Handler(p) = "stop" /\ obs[p] = <<FALSE>>)
                    => /\ err[p] = "not_running"
                       /\ cmds[p] = <<>>
                       /\ httpStatus[p] = 412
               /\ (Handler(p) = "start" /\ obs[p] = <<TRUE>>)
                    => /\ err[p] = "already_running"
                       /\ cmds[p] = <<>>
                       /\ httpStatus[p] = 409
               /\ err[p] \notin {"none", "not_running", "already_running"}
                    => httpStatus[p] = 500

\* the stored value of cache k is fresh for a non-forced caller
Fresh(k) == cacheVal[k] # 0 /\ now < expiry[k]

\* C24 (as claimed): a non-forced call on a cache that holds a fresh value
\* can take the read lock, and so return the value, while another caller has
\* a fetch in flight on that cache.
C24_FreshReadNeverWaits ==
    \A c \in Callers :
        (/\ cpc[c] = "rlock" /\ ~cforce[c] /\ Fresh(ckind[c])
         /\ \E d \in Callers \ {c} : cpc[d] = "fetch" /\ ckind[d] = ckind[c])
            => ENABLED (GeoRLock(c) \/ BwRLock(c))

\* C25: the expiry a cache holds is the one of the value it holds whenever no
\* goroutine is inside the exclusive section; the two stores of a fetch are
\* made by the holder of the write lock; and a call that returned the stored
\* value had found, at the check that let it return, the value together with
\* the expiry of the same fetch.
C25_ValueAndExpiryTogether ==
    /\ \A k \in Caches : writer[k] = "none" => expOf[k] = cacheVal[k]
    /\ \A c \in Callers :
         /\ cpc[c] \in {"fetch", "store_expiry"} => writer[ckind[c]] = c
         /\ (Done(c) /\ path[c] \in {"fast", "recheck"})
              => (ret[c] # 0 /\ seenExp[c] = ret[c])

C25_Witness ==
    \E c \in Callers :
        /\ Done(c) /\ ckind[c] = "bw" /\ path[c] = "fast"
        /\ ret[c] = 2 /\ seenExp[c] = 2
        /\ okCount["bw"] = 2
        /\ staleVals["bw"] = {}

\* the refresher's call of this iteration has returned
Returned(r) == rpc[r] = "sleep" \/ (rpc[r] = "call" /\ cpc[r] = "idle")

\* C22: a refresher whose call returned an error sleeps one minute, one
\* whose call returned no error sleeps 240 minutes (geo) or 1440 minutes
\* (bandwidth), and then the cache holds a value; the next call begins no
\* earlier than the end of the sleep and can begin as soon as the sleep is
\* over, after every failure alike.
C22_RetryAfterDelay ==
    \A r \in Refreshers :
        /\ rpc[r] = "sleep"
             => /\ cerr[r] # "none" => wake[r] = sleptAt[r] + 1
                /\ cerr[r] = "none"
                     => /\ wake[r] = sleptAt[r]
                                       + (IF r = "rgeo" THEN 240 ELSE 1440)
                        /\ cacheVal[IF r = "rgeo" THEN "geo" ELSE "bw"] # 0
                /\ now >= wake[r] => ENABLED RefresherWake(r)
        /\ rpc[r] # "sleep" => now >= wake[r]
        /\ (rpc[r] = "loop" /\ rounds < MaxRounds) => ENABLED RefresherCall(r)

C22_Witness ==
    /\ rpc["rbw"] = "call" /\ cpc["rbw"] = "fetch"
    /\ fetchCount["bw"] = 2 /\ okCount["bw"] = 0
    /\ sleptAt["rbw"] = 1 /\ wake["rbw"] = 2 /\ now = 2

\* C23 (as claimed): every iteration of a refresher, geo or bandwidth, makes
\* a fetch attempt.
C23_EveryIterationFetches ==
    \A r \in Refreshers : Returned(r) => path[r] = "fetch"

\* C23 (amended): every iteration of the bandwidth refresher makes a fetch
\* attempt; an iteration of the geo refresher makes one or returns, with no
\* error, the stored value it found fresh.
C23_BandwidthIterationFetches ==
    /\ Returned("rbw") => path["rbw"] = "fetch"
    /\ Returned("rgeo")
         => \/ path["rgeo"] = "fetch"
            \/ /\ path["rgeo"] \in {"fast", "recheck"}
               /\ ret["rgeo"] # 0
               /\ cerr["rgeo"] = "none"

C23_Witness ==
    /\ rpc["rbw"] = "sleep" /\ path["rbw"] = "fetch"
    /\ seen["rbw"] = 1 /\ ret["rbw"] = 2
    /\ staleVals["bw"] = {}
    /\ now = 1

\* C26 (as claimed): a GET /resources request that found the timestamp of
\* the bandwidth cache fresh reports three figures that all come from the
\* measurement of that timestamp.
C26_NoTornRead ==
    (spc = "idle" /\ reads >= 1 /\ got.ts # 0)
        => (got.dl = got.ts /\ got.ul = got.ts /\ got.ping = got.ts)

\* ------------------------------------- claims: registration, second part
\* positions of a goroutine inside RegisterNode
RegPcs == {"register", "reg_post"}

\* goroutine g returns from RegisterNode in this step
RegReturns(g) == hpc[g] \in RegPcs /\ hpc'[g] \notin RegPcs

\* C31: the step in which a RegisterNode call ends in a failure (request not
\* built, transport error, non-success status, unparsable body) hands its
\* caller an error and does not change registered; with no other caller of
\* RegisterNode registered is false once the failed call has returned; and a
\* SendHeartbeat call that reads registered false calls RegisterNode again.
C31_FailedRegistrationRetried ==
    [][/\ \A g \in HbThreads :
            (RegReturns(g) /\ regOutcome'[g] # "ok")
                => /\ herr'[g] # <<>>
                   /\ registered' = registered
       /\ (regCalls = 0 /\ RegReturns(Hb) /\ regOutcome'[Hb] # "ok")
            => ~registered'
       /\ (hpc[Hb] = "send" /\ hpc'[Hb] # "send"
             /\ ~registered /\ managerIP # "")
            => (hpc'[Hb] = "register" /\ regCallsIn' = 1)]_vars

C31_Witness ==
    /\ hpc[Reg] = "idle" /\ regOutcome[Reg] = "bad_body"
    /\ herr[Reg] = <<"bad_body">>
    /\ ~registered
    /\ beats = 2 /\ hpc[Hb] = "register" /\ regCallsIn = 1
    /\ regOutcome[Hb] = "none"

\* C32: RegisterNode goes on to its request whatever the geo and bandwidth
\* lookups returned; the payload it has built holds the geo key exactly when
\* the geo lookup returned a value with no error, the bandwidth key exactly
\* when the bandwidth lookup did, and the request is then sent.
C32_PayloadFollowsLookups ==
    [][\A g \in HbThreads :
         /\ (hpc[g] = "register" /\ hpc'[g] # "register"
               /\ managerIP # "" /\ NewRequestOK(managerIP))
              => hpc'[g] = "reg_post"
         /\ hpc'[g] = "reg_post"
              => /\ ("geo" \in regData'[g]) <=> ("geo" \notin warned'[g])
                 /\ ("bandwidth" \in regData'[g])
                        <=> ("bandwidth" \notin warned'[g])
                 /\ {"hostname", "resources", "timestamp"}
                        \subseteq regData'[g]
         /\ (hpc[g] = "reg_post" /\ hpc'[g] # "reg_post")
              => regReqs'[g] = regReqs[g] + 1]_vars

C32_Witness ==
    /\ hpc[Hb] = "wait" /\ regReqs[Hb] = 1 /\ regOutcome[Hb] = "ok"
    /\ hpc[Reg] = "reg_post"
    /\ warned[Reg] = {"geo"} /\ geo[Reg] = 0 /\ bw[Reg] = 1
    /\ regData[Reg] = {"hostname", "resources", "timestamp", "bandwidth"}

\* ------------------------------------------ claims: the caches, second part
\* C33 (as claimed): the bandwidth lookup made while a heartbeat or
\* registration payload is built, GetBandwidth(false), never starts a
\* measurement: it returns a stored value or nothing.
C33_LookupNeverMeasures ==
    \A c \in HbCallers :
        (ckind[c] = "bw" /\ ~cforce[c] /\ cpc[c] # "idle")
            => (cpc[c] \notin {"fetch", "store_expiry"} /\ path[c] # "fetch")

\* ---------------------------------------------- claims: heartbeat requests
\* C34: a SendHeartbeat call that begins on a registered node sends one
\* heartbeat request and no second one; when the request ends in a transport
\* error or a non-success status the call returns an error, and registered
\* stays true.
C34_OneHeartbeatNoRetry ==
    (InCall /\ regAtStart[Hb])
        => /\ hbReqs <= 1
           /\ registered
           /\ HbReturned
                => /\ hbReqs = 1
                   /\ hbOutcome \in {"transport", "bad_status", "ok"}
                   /\ hbOutcome \in {"transport", "bad_status"}
                        => herr[Hb] = <<hbOutcome>>
                   /\ hbOutcome = "ok" => herr[Hb] = <<>>

C34_Witness ==
    /\ HbReturned /\ regAtStart[Hb]
    /\ hbReqs = 1 /\ hbOutcome = "transport"
    /\ herr[Hb] = <<"transport">>
    /\ registered
    /\ regCalls = 0

\* C35 (as claimed): once registered is true no goroutine sends a
\* registration request, and no RegisterNode call ends in a second success.
C35_RegisteredOnce ==
    [][registered
         => \A g \in HbThreads :
              /\ regReqs'[g] <= regReqs[g]
              /\ RegReturns(g) => regOutcome'[g] # "ok"]_vars

\* ------------------------------------ claims: the reconciler, second part
\* a periodic tick has ended with "Role check completed" (service.go:440):
\* both role queries and SetupNodeByRole returned no error
TickLogged == pc[Rec] = "wait" /\ roleQueries = 2 /\ err[Rec] = "none"

\* C36 (as claimed): the role in the log line of a completed periodic tick is
\* the role of the assignment SetupNodeByRole acted on in that tick.
C36_LoggedRoleIsActedRole ==
    TickLogged => currentRole.Role = roleInfo[Rec].Role

\* commands that change what the binary runs
StateCmds == {"stop"} \cup StartCmds

\* C37: from its role query on, a reconciliation tick runs at most one of
\* `ray stop` and `ray start`: never a stop and a start, never two starts or
\* two stops.
C37_OneCommandPerTick ==
    CountOf(cmds[Rec], StateCmds) <= 1

C37_Witness ==
    /\ TickDone /\ pc[Rec] = "wait" /\ ticks = 2
    /\ cmds[Rec] = <<"start_worker">>
    /\ err[Rec] = "none"
    /\ running

\* ------------------------------------------- claims: the caches, third part
\* a step of caller c inside GetGeoLocation or GetBandwidth
CallStep(c) ==
    \/ GeoRLock(c) \/ GeoCheck(c) \/ GeoLock(c) \/ GeoRecheck(c)
    \/ GeoFetch(c) \/ GeoStoreExpiry(c)
    \/ BwRLock(c) \/ BwCheck(c) \/ BwLock(c) \/ BwRecheck(c)
    \/ BwFetch(c) \/ BwStoreExpiry(c)

\* C38: a caller that is not inside a call holds no lock of either cache,
\* whichever way its call returned; a caller waiting for the write lock does
\* not hold the read lock; a lock is held only by a caller that is at a step
\* it can take; and whenever some caller is inside a call, some caller inside
\* a call can take its next step.
C38_NoDeadlock ==
    /\ \A c \in AllCallers, k \in Caches :
         /\ cpc[c] = "idle" => (c \notin readers[k] /\ writer[k] # c)
         /\ cpc[c] \in {"rlock", "wlock"}
              => (c \notin readers[k] /\ writer[k] # c)
         /\ c \in readers[k] => (cpc[c] = "rcheck" /\ ckind[c] = k)
         /\ writer[k] = c
              => (cpc[c] \in {"recheck", "fetch", "store_expiry"}
                    /\ ckind[c] = k)
    /\ \A c \in AllCallers :
         (cpc[c] \in {"rcheck", "recheck", "fetch", "store_expiry"})
             => ENABLED CallStep(c)
    /\ (\E c \in AllCallers : cpc[c] # "idle")
         => \E c \in AllCallers : cpc[c] # "idle" /\ ENABLED CallStep(c)

C38_Witness ==
    /\ cpc["c1"] = "idle" /\ path["c1"] = "fetch" /\ cerr["c1"] = "get_err"
    /\ ckind["c1"] = "geo" /\ writer["geo"] = "c2"
    /\ cpc["c2"] = "fetch" /\ ckind["c2"] = "geo"
    /\ readers["geo"] = {}

\* caller c makes the expiry store of a successful fetch on cache k in this
\* step
StoresExpiry(c, k) ==
    /\ cpc[c] = "store_expiry" /\ ckind[c] = k /\ writer[k] = c
    /\ cpc'[c] = "idle"
    /\ ret[c] = cacheVal[k] /\ cerr[c] = "none"

\* C39: a cache holds a non-zero expiry only together with a value; a step
\* changes the expiry only as the second store of a successful fetch, to the
\* time of the store plus the cache's TTL; and no step lowers it.
C39_ExpiryOnlyBySuccessfulFetch ==
    [][\A k \in Caches :
         /\ expiry'[k] # 0 => cacheVal'[k] # 0
         /\ expiry'[k] # expiry[k]
              => /\ \E c \in AllCallers : StoresExpiry(c, k)
                 /\ expiry'[k] = now + TTL(k)
         /\ expiry'[k] >= expiry[k]
         /\ (\E c \in AllCallers :
               /\ ckind[c] = k /\ cpc[c] = "fetch" /\ cpc'[c] = "idle")
              => expiry'[k] = expiry[k]]_vars

C39_Witness ==
    /\ okCount["bw"] = 2 /\ cacheVal["bw"] = 2 /\ writer["bw"] = "none"
    /\ now = 2 /\ expiry["bw"] = 2 + BwTTL
    /\ fetchCount["geo"] = 1 /\ cacheVal["geo"] = 0 /\ expiry["geo"] = 0
    /\ writer["geo"] = "none"

====
